---- MODULE Spec2Model ----
(***************************************************************************)
(* A model of jedi-ci's bundle manifest rewriter                           *)
(* (ci_action/library/cmake_rewrite.py) and of the helpers it calls in     *)
(* ci_action/library/github_client.py.                                     *)
(*                                                                         *)
(* Text is modelled as text: a line of the manifest is a TLA+ string, and  *)
(* the regular expressions of BundleLine are matched character by          *)
(* character (TLC evaluates Len, SubSeq and \o on strings).                *)
(***************************************************************************)
EXTENDS Naturals, Sequences, FiniteSets

VARIABLES
    bl_desc,        \* the shape the declaration line under test was built from
    bl_content,     \* the text handed to BundleLine(content)
    bl_pc,          \* "new" | "parsed" | "raised" | "emitted" | "reparsed"
    bl,             \* the BundleLine object (its fields), once constructed
    emit_call,      \* which serializer emitted the line, with its arguments
    emitted,        \* the text the serializer returned
    reparsed,       \* BundleLine(emitted)
    reemitted,      \* the text the same serializer returns for `reparsed`
    manifest,       \* the lines the manifest text under test was built from
    original_content, \* the manifest text handed to CMakeFile(original_content)
    cm_pc,          \* "new" | "constructed" | "construct_raised" | "rewritten" | "rewrite_raised"
    cmake_file,     \* the CMakeFile object (its fields), once constructed
    rw_call,        \* the rewrite method called last, with its arguments
    file_object,    \* what that call wrote: the list handed to writelines
    calls,          \* the rewrite calls running on one shared CMakeFile
    description,    \* the lines the pull request description was built from
    trigger,        \* the triggering repository and pull request
    pr_payload,     \* the pull request payload of the event: body and draft
    ann_pc,         \* "new" | "returned" | "raised"
    pr_body,        \* read_test_annotations: the description it scanned
    build_group_matches, \* read_test_annotations: the captured build-group values
    test_annotations,    \* the TestAnnotations read_test_annotations returned
    test_manifest,  \* test_manifest["repositories"] handed to gather_pr_group
    build_group_map, \* the build-group map handed to gather_pr_group
    gather_pc,      \* "loop" | "returned" | "raised"
    gather_i,       \* gather_pr_group: the entry the repository loop is at
    gather_group,   \* gather_pr_group: the local list group
    gather_locals,  \* gather_pr_group: ref_name and commit_sha, once bound
    lookups,        \* the requests made to the repository service, with outcomes
    pr_group,       \* what gather_pr_group returned to get_prs
    environ,        \* the settings the action runner put in the environment
    config_pc,      \* get_environment_config: "new" | "returned" | "raised"
    config,         \* what get_environment_config returned, or what it raised
    batch_args,     \* cancel_prior_batch_jobs: job_queue, repo_name and pr
    jobSummaryList, \* the job summaries the Batch service lists
    batch_pc,       \* "new" | "cancelling" | "returned" | "raised"
    jobs_to_cancel, \* cancel_prior_batch_jobs: the local list jobs_to_cancel
    cancelled_jobs, \* cancel_prior_batch_jobs: the local list cancelled_jobs
    batch_requests, \* the requests made to the Batch service, with outcomes
    commit_check_runs, \* the commits of the pull request with their check runs, at the call
    history_limit,  \* cancel_prior_unfinished_check_runs: the argument history_limit
    cr_pc,          \* "new" | "older" | "returned"
    commits,        \* cancel_prior_unfinished_check_runs: the older commits still to visit
    trigger_commit, \* cancel_prior_unfinished_check_runs: the local trigger_commit
    found_jedi_check_runs, \* cancel_prior_unfinished_check_runs: the local flag
    fetched,        \* the commits whose check runs were fetched, in order
    edits,          \* the ids of the check runs check_run.edit was called on
    github_check_runs, \* the check runs as the repository service holds them
    event,          \* the webhook event handed to lambda_handler
    handler_pc,     \* "new" | "processing" | "responded" | the exception that left lambda_handler
    response,       \* what lambda_handler returned
    process_pc,     \* process_event: "start" | "get_prs" | "gather" | "workers" | "raising" | "returned" | "raised"
    manifest_request, \* how the request of get_test_manifest ended, "" before it
    build_info_payload, \* process_event: the build-info payload get_prs returned
    futures,        \* process_event: the future of each chosen build environment
    created_check_runs, \* the names of the check runs created, in order
    handled,        \* the environments whose futures the loop over as_completed saw
    jobs            \* the requests to submit a batch job, with outcomes

lineVars == <<bl_desc, bl_content, bl_pc, bl, emit_call, emitted,
              reparsed, reemitted>>

fileVars == <<manifest, original_content, cm_pc, cmake_file, rw_call, file_object>>

sharedVars == <<calls>>

annVars == <<description, trigger, pr_payload, ann_pc, pr_body,
             build_group_matches, test_annotations>>

groupVars == <<test_manifest, build_group_map, gather_pc, gather_i,
               gather_group, gather_locals, lookups, pr_group>>

configVars == <<environ, config_pc, config>>

batchVars == <<batch_args, jobSummaryList, batch_pc, jobs_to_cancel,
               cancelled_jobs, batch_requests>>

checkRunVars == <<commit_check_runs, history_limit, cr_pc, commits, trigger_commit,
                  found_jedi_check_runs, fetched, edits, github_check_runs>>

eventVars == <<event, handler_pc, response, process_pc, manifest_request,
               build_info_payload, futures, created_check_runs, handled, jobs>>

serviceVars == <<configVars, batchVars, checkRunVars, eventVars>>

\* What the actions on a webhook event leave alone, next to the annotations
\* and the build group.
otherVars == <<lineVars, fileVars, sharedVars, configVars, batchVars, checkRunVars>>

vars == <<lineVars, fileVars, sharedVars, annVars, groupVars, serviceVars>>

\* What the actions on one BundleLine and on one CMakeFile leave alone.
notLineVars == <<fileVars, sharedVars, annVars, groupVars, serviceVars>>
notFileVars == <<lineVars, sharedVars, annVars, groupVars, serviceVars>>

-----------------------------------------------------------------------------
(* Characters and character classes of the regular expressions.            *)

LowerLetters ==
    {"a","b","c","d","e","f","g","h","i","j","k","l","m",
     "n","o","p","q","r","s","t","u","v","w","x","y","z"}

UpperLetters ==
    {"A","B","C","D","E","F","G","H","I","J","K","L","M",
     "N","O","P","Q","R","S","T","U","V","W","X","Y","Z"}

Digits == {"0","1","2","3","4","5","6","7","8","9"}

\* \s of Python's re, for str patterns: the ASCII whitespace a line can hold
\* ("\n" and "\r" end a line and never occur inside one).
Whitespace == {" ", "\t"}

\* [a-zA-Z0-9._-]
NameChars == LowerLetters \cup UpperLetters \cup Digits \cup {".", "_", "-"}

\* [a-zA-Z0-9/:._-]
UriChars == NameChars \cup {"/", ":"}

\* ["']
QuoteChars == {"\"", "'"}

\* s[i] (1-based), "" past the end.
CharAt(s, i) == IF i >= 1 /\ i <= Len(s) THEN SubSeq(s, i, i) ELSE ""

\* s[i:] of Python with a 1-based i.
From(s, i) == SubSeq(s, i, Len(s))

\* Whether the literal lit stands in s at position i.
LitAt(s, i, lit) ==
    /\ i >= 1
    /\ i + Len(lit) - 1 <= Len(s)
    /\ SubSeq(s, i, i + Len(lit) - 1) = lit

\* The position after the longest run of characters of class cls that starts
\* at i: what a greedy cls* consumes.
RECURSIVE RunEnd(_, _, _)
RunEnd(s, i, cls) ==
    IF i <= Len(s) /\ CharAt(s, i) \in cls THEN RunEnd(s, i + 1, cls) ELSE i

SetMax(S) == CHOOSE x \in S : \A y \in S : y <= x

NoMatch == [matched |-> FALSE, g1 |-> "", g2 |-> ""]

-----------------------------------------------------------------------------
(* The regular expressions of BundleLine, matched with re.match: anchored  *)
(* at the start of the line.  A leading .* is greedy, so the match is the  *)
(* one at the last position where the rest of the pattern matches.         *)

\* ^\s*ecbuild_bundle\(\s*PROJECT\s+([a-zA-Z0-9._-]*)\s+
\* The name group may be empty: when the text after "PROJECT\s+" is no name
\* followed by whitespace, the first \s+ gives one blank back and the group
\* matches the empty string between the two.
_project_re(s) ==
    LET a == RunEnd(s, 1, Whitespace)
        b == a + Len("ecbuild_bundle(")
        c == RunEnd(s, b, Whitespace)
        d == c + Len("PROJECT")
        e == RunEnd(s, d, Whitespace)
        f == RunEnd(s, e, NameChars)
    IN  IF ~(LitAt(s, a, "ecbuild_bundle(") /\ LitAt(s, c, "PROJECT") /\ e > d)
        THEN NoMatch
        ELSE IF f > e /\ CharAt(s, f) \in Whitespace
        THEN [matched |-> TRUE, g1 |-> SubSeq(s, e, f - 1), g2 |-> ""]
        ELSE IF e - d >= 2
        THEN [matched |-> TRUE, g1 |-> "", g2 |-> ""]
        ELSE NoMatch

\* GIT\s+["']([a-zA-Z0-9/:._-]+)["']\s at position p
GitAt(s, p) ==
    LET a == p + Len("GIT")
        b == RunEnd(s, a, Whitespace)
        c == RunEnd(s, b + 1, UriChars)
    IN  IF /\ LitAt(s, p, "GIT")
           /\ b > a
           /\ CharAt(s, b) \in QuoteChars
           /\ c > b + 1
           /\ CharAt(s, c) \in QuoteChars
           /\ CharAt(s, c + 1) \in Whitespace
        THEN [matched |-> TRUE, g1 |-> SubSeq(s, b + 1, c - 1), g2 |-> ""]
        ELSE NoMatch

\* .*GIT\s+["']([a-zA-Z0-9/:._-]+)["']\s
_git_re(s) ==
    LET P == {p \in 1..Len(s) : GitAt(s, p).matched}
    IN  IF P = {} THEN NoMatch ELSE GitAt(s, SetMax(P))

\* SOURCE\s+([a-zA-Z0-9/:._-]+)\s at position p
SourceAt(s, p) ==
    LET a == p + Len("SOURCE")
        b == RunEnd(s, a, Whitespace)
        c == RunEnd(s, b, UriChars)
    IN  IF /\ LitAt(s, p, "SOURCE")
           /\ b > a
           /\ c > b
           /\ CharAt(s, c) \in Whitespace
        THEN [matched |-> TRUE, g1 |-> SubSeq(s, b, c - 1), g2 |-> ""]
        ELSE NoMatch

\* .*SOURCE\s+([a-zA-Z0-9/:._-]+)\s
_source_re(s) ==
    LET P == {p \in 1..Len(s) : SourceAt(s, p).matched}
    IN  IF P = {} THEN NoMatch ELSE SourceAt(s, SetMax(P))

\* kw\s+([a-zA-Z0-9._-]+)\s at position p, for one keyword kw
KeywordValueAt(s, p, kw) ==
    LET a == p + Len(kw)
        b == RunEnd(s, a, Whitespace)
        c == RunEnd(s, b, NameChars)
    IN  IF /\ LitAt(s, p, kw)
           /\ b > a
           /\ c > b
           /\ CharAt(s, c) \in Whitespace
        THEN [matched |-> TRUE, g1 |-> kw, g2 |-> SubSeq(s, b, c - 1)]
        ELSE NoMatch

\* (BRANCH|TAG)\s+([a-zA-Z0-9._-]+)\s at position p
BranchOrTagAt(s, p) ==
    IF KeywordValueAt(s, p, "BRANCH").matched
    THEN KeywordValueAt(s, p, "BRANCH")
    ELSE KeywordValueAt(s, p, "TAG")

\* .*(BRANCH|TAG)\s+([a-zA-Z0-9._-]+)\s
_branch_or_tag_re(s) ==
    LET P == {p \in 1..Len(s) : BranchOrTagAt(s, p).matched}
    IN  IF P = {} THEN NoMatch ELSE BranchOrTagAt(s, SetMax(P))

\* (kw1|kw2)\s at position p: the one group holds the keyword that stands there
AttributeAt(s, p, kw1, kw2) ==
    IF LitAt(s, p, kw1) /\ CharAt(s, p + Len(kw1)) \in Whitespace
    THEN [matched |-> TRUE, g1 |-> kw1, g2 |-> ""]
    ELSE IF LitAt(s, p, kw2) /\ CharAt(s, p + Len(kw2)) \in Whitespace
    THEN [matched |-> TRUE, g1 |-> kw2, g2 |-> ""]
    ELSE NoMatch

\* .*(UPDATE|NOREMOTE)\s
_remote_rule_re(s) ==
    LET P == {p \in 1..Len(s) : AttributeAt(s, p, "UPDATE", "NOREMOTE").matched}
    IN  IF P = {} THEN NoMatch
        ELSE AttributeAt(s, SetMax(P), "UPDATE", "NOREMOTE")

\* .*(MANUAL|RECURSIVE)\s
\* One group, one match: of a line that carries both flags only the one that
\* stands last is in match.groups().
_manual_and_recursive_re(s) ==
    LET P == {p \in 1..Len(s) : AttributeAt(s, p, "MANUAL", "RECURSIVE").matched}
    IN  IF P = {} THEN NoMatch
        ELSE AttributeAt(s, SetMax(P), "MANUAL", "RECURSIVE")

\* \s*ecbuild_bundle\s*\(.*   (CMakeFile._ecbuild_bundle_re)
_ecbuild_bundle_re(s) ==
    LET a == RunEnd(s, 1, Whitespace)
        b == RunEnd(s, a + Len("ecbuild_bundle"), Whitespace)
    IN  LitAt(s, a, "ecbuild_bundle") /\ CharAt(s, b) = "("

-----------------------------------------------------------------------------
(* str methods.                                                            *)

LowerChar(c) ==
    CASE c = "A" -> "a" [] c = "B" -> "b" [] c = "C" -> "c" [] c = "D" -> "d"
      [] c = "E" -> "e" [] c = "F" -> "f" [] c = "G" -> "g" [] c = "H" -> "h"
      [] c = "I" -> "i" [] c = "J" -> "j" [] c = "K" -> "k" [] c = "L" -> "l"
      [] c = "M" -> "m" [] c = "N" -> "n" [] c = "O" -> "o" [] c = "P" -> "p"
      [] c = "Q" -> "q" [] c = "R" -> "r" [] c = "S" -> "s" [] c = "T" -> "t"
      [] c = "U" -> "u" [] c = "V" -> "v" [] c = "W" -> "w" [] c = "X" -> "x"
      [] c = "Y" -> "y" [] c = "Z" -> "z" [] OTHER -> c

\* s.lower(), computed on the two halves of s
RECURSIVE Lower(_)
Lower(s) ==
    IF Len(s) <= 1 THEN LowerChar(s)
    ELSE Lower(SubSeq(s, 1, Len(s) \div 2))
         \o Lower(SubSeq(s, Len(s) \div 2 + 1, Len(s)))

\* sub in s
Contains(s, sub) == \E p \in 1..Len(s) : LitAt(s, p, sub)

\* s.startswith(prefix), s.endswith(suffix)
StartsWith(s, prefix) == LitAt(s, 1, prefix)
EndsWith(s, suffix) == LitAt(s, Len(s) - Len(suffix) + 1, suffix)

\* The position of the first sep in s, 0 when there is none.
Find(s, sep) ==
    LET P == {p \in 1..Len(s) : CharAt(s, p) = sep}
    IN  IF P = {} THEN 0 ELSE CHOOSE p \in P : \A q \in P : p <= q

-----------------------------------------------------------------------------
(* github_client.py                                                        *)

GITHUB_URI == "https://github.com/"

\* The prefix is cut by length; nothing checks that repo_uri starts with it.
get_fullname_from_github_uri(repo_uri) ==
    LET repo_path == From(repo_uri, Len(GITHUB_URI) + 1)
    IN  IF EndsWith(repo_path, ".git")
        THEN SubSeq(repo_path, 1, Len(repo_path) - 4)
        ELSE repo_path

\* org, repo = full_repo.split('/', 1): the unpacking raises ValueError when
\* full_repo holds no "/".
get_repo_tuple_from_github_uri(repo_uri) ==
    LET full_repo == get_fullname_from_github_uri(repo_uri)
        i == Find(full_repo, "/")
    IN  IF i = 0
        THEN [raised |-> TRUE, repo |-> "", org |-> ""]
        ELSE [raised |-> FALSE,
              repo |-> From(full_repo, i + 1),
              org |-> SubSeq(full_repo, 1, i - 1)]

-----------------------------------------------------------------------------
(* cmake_rewrite.py: BundleLinePart and BundleLine.                        *)

\* Python's None, where the field otherwise holds a BundleLinePart.
None == [is_none |-> TRUE]

\* Python's None, where the field or argument otherwise holds a str.  The code
\* tests such values for truth only (if tag:, if self.github_org_repo_key and
\* ...), and None and '' are both false.
NoneStr == ""

\* BundleLinePart(name, is_attribute, value=None, quote_char='')
BundleLinePart(name, is_attribute, value, quote_char) ==
    [name |-> name, is_attribute |-> is_attribute, value |-> value,
     quote_char |-> quote_char]

\* str(c) for a BundleLinePart (BundleLinePart.__str__) or for None
Str(c) ==
    IF c = None THEN "None"
    ELSE IF c.is_attribute THEN c.name
    ELSE c.name \o " " \o c.quote_char \o c.value \o c.quote_char

\* sep.join(strs)
RECURSIVE Join(_, _)
Join(strs, sep) ==
    IF Len(strs) = 0 THEN ""
    ELSE IF Len(strs) = 1 THEN strs[1]
    ELSE strs[1] \o sep \o Join(Tail(strs), sep)

\* The messages of the exceptions BundleLine.__init__ can end with.
NoProjectName == "Invalid bundle; no project name"
GitAndSource == "Invalid bundle; git and source cannot both be present"
NoGitOrSource == "Invalid bundle; no git or source"
UnpackError == "not enough values to unpack (expected 2, got 1)"

\* A variant of IsGithubUri that takes every GIT URL for a GitHub URL, so that
\* a declaration hosted elsewhere gets a key as well.
IsGithubUriForAnyHost(git_uri) == TRUE

\* 'github.com' in git_uri
IsGithubUri(git_uri) == Contains(git_uri, "github.com")

\* The exception BundleLine.__init__ ends with, "" when it returns: the raise
\* statements in the order the constructor reaches them, given which of
\* _project_re, _git_re and _source_re matched and whether the unpacking of
\* get_repo_tuple_from_github_uri's result raised.
BundleLineRaises(project_matched, git_matched, source_matched, unpack_raised) ==
    IF ~project_matched THEN NoProjectName
    ELSE IF unpack_raised THEN UnpackError
    ELSE IF source_matched /\ git_matched THEN GitAndSource
    ELSE IF ~git_matched /\ ~source_matched THEN NoGitOrSource
    ELSE ""

\* BundleLine(content).  raised is "" when the constructor returns, and the
\* message of the exception it raised otherwise; the fields an exception left
\* unassigned keep the values the constructor's first lines give them.
BundleLine(content) ==
    LET pm == _project_re(content)
        gm == _git_re(content)
        git_uri == Lower(gm.g1)
        is_github == gm.matched /\ IsGithubUri(git_uri)
        tuple == get_repo_tuple_from_github_uri(git_uri)
        sm == _source_re(content)
        vm == _branch_or_tag_re(content)
        rm == _remote_rule_re(content)
        fm == _manual_and_recursive_re(content)
    IN  [raised |-> BundleLineRaises(pm.matched, gm.matched, sm.matched,
                                     is_github /\ tuple.raised),
         content |-> content,
         project |->
            IF pm.matched THEN BundleLinePart("PROJECT", FALSE, pm.g1, "")
            ELSE None,
         project_name |-> IF pm.matched THEN pm.g1 ELSE NoneStr,
         source_reference_type |->
            IF gm.matched THEN "git"
            ELSE IF sm.matched THEN "source"
            ELSE NoneStr,
         source_reference |->
            IF gm.matched THEN BundleLinePart("GIT", FALSE, gm.g1, "\"")
            ELSE IF sm.matched THEN BundleLinePart("SOURCE", FALSE, sm.g1, "")
            ELSE None,
         github_org_repo_key |->
            IF is_github /\ ~tuple.raised
            THEN tuple.org \o "/" \o tuple.repo
            ELSE NoneStr,
         version_ref_type |-> IF vm.matched THEN Lower(vm.g1) ELSE NoneStr,
         version_ref |->
            IF vm.matched THEN BundleLinePart(vm.g1, FALSE, vm.g2, "")
            ELSE None,
         remote_rule |->
            IF rm.matched THEN BundleLinePart(rm.g1, TRUE, NoneStr, "")
            ELSE None,
         components |->
            IF fm.matched THEN <<BundleLinePart(fm.g1, TRUE, NoneStr, "")>>
            ELSE <<>>]

\* [str(c) for c in render_components]
StrAll(render_components) ==
    [i \in 1..Len(render_components) |-> Str(render_components[i])]

\* BundleLine.rewrite_original
rewrite_original(self) ==
    LET render_components ==
            <<self.project, self.source_reference, self.version_ref,
              self.remote_rule>> \o self.components
        content == Join(StrAll(render_components), " ")
    IN  "ecbuild_bundle( " \o content \o " )"

\* A variant of rewrite that keeps the remote rule of the line when a tag is
\* given.
rewriteKeepingRemoteRule(self, git_repo, branch, tag) ==
    LET source_reference ==
            IF git_repo # NoneStr
            THEN BundleLinePart("GIT", FALSE, git_repo, "\"")
            ELSE self.source_reference
        given ==
            IF tag # NoneStr THEN BundleLinePart("TAG", FALSE, tag, "")
            ELSE IF branch # NoneStr
            THEN BundleLinePart("BRANCH", FALSE, branch, "")
            ELSE None
        remote_rule == self.remote_rule
        version_ref == IF given # None THEN given ELSE self.version_ref
        render_components ==
            <<self.project, source_reference, version_ref>>
            \o (IF remote_rule # None THEN <<remote_rule>> ELSE <<>>)
            \o self.components
        content == Join(StrAll(render_components), " ")
    IN  IF branch # NoneStr /\ tag # NoneStr
        THEN [raised |-> TRUE, text |-> ""]
        ELSE [raised |-> FALSE, text |-> "ecbuild_bundle( " \o content \o " )"]

\* BundleLine.rewrite(git_repo=None, branch=None, tag=None): the text it
\* returns, raised = TRUE when it raises ValueError instead.
rewrite(self, git_repo, branch, tag) ==
    LET source_reference ==
            IF git_repo # NoneStr
            THEN BundleLinePart("GIT", FALSE, git_repo, "\"")
            ELSE self.source_reference
        given ==
            IF tag # NoneStr THEN BundleLinePart("TAG", FALSE, tag, "")
            ELSE IF branch # NoneStr
            THEN BundleLinePart("BRANCH", FALSE, branch, "")
            ELSE None
        remote_rule == IF tag # NoneStr THEN None ELSE self.remote_rule
        version_ref == IF given # None THEN given ELSE self.version_ref
        render_components ==
            <<self.project, source_reference, version_ref>>
            \o (IF remote_rule # None THEN <<remote_rule>> ELSE <<>>)
            \o self.components
        content == Join(StrAll(render_components), " ")
    IN  IF branch # NoneStr /\ tag # NoneStr
        THEN [raised |-> TRUE, text |-> ""]
        ELSE [raised |-> FALSE, text |-> "ecbuild_bundle( " \o content \o " )"]

\* A variant of original_line that re-serializes the parsed components instead
\* of returning the text the line was constructed from.
original_lineReserialized(self) == rewrite(self, NoneStr, NoneStr, NoneStr).text

\* BundleLine.original_line
original_line(self) == self.content

\* BundleLine.disabled_line
disabled_line(self) == "# " \o self.content

-----------------------------------------------------------------------------
(* cmake_rewrite.py: CMakeFile.                                            *)

\* str.splitlines(), for the line boundaries "\n", "\r\n" and "\r".
RECURSIVE splitlines(_)
splitlines(s) ==
    IF Len(s) = 0 THEN <<>>
    ELSE LET P == {p \in 1..Len(s) : CharAt(s, p) \in {"\n", "\r"}}
             p == CHOOSE x \in P : \A y \in P : x <= y
             q == IF CharAt(s, p) = "\r" /\ CharAt(s, p + 1) = "\n"
                  THEN p + 2 ELSE p + 1
         IN  IF P = {} THEN <<s>>
             ELSE <<SubSeq(s, 1, p - 1)>> \o splitlines(From(s, q))

\* A variant of CMakeFileOf that skips a declaration BundleLine cannot parse
\* and keeps it as a plain line.
CMakeFileOfSkippingUnparsed(lines) ==
    LET all == {i \in 1..Len(lines) : _ecbuild_bundle_re(lines[i])}
        idx == {i \in all : BundleLine(lines[i]).raised = ""}
        parsed == [i \in idx |-> BundleLine(lines[i])]
        names == {parsed[i].project_name : i \in idx}
    IN  [raised |-> "",
         lines |-> lines,
         bundle_lines |-> parsed,
         bundle_line_names |->
            [n \in names |->
               parsed[SetMax({i \in idx : parsed[i].project_name = n})]]]

\* A variant of CMakeFileOf whose name index keeps the first declaration of a
\* project name instead of the last.
CMakeFileOfFirstNameWins(lines) ==
    LET idx == {i \in 1..Len(lines) : _ecbuild_bundle_re(lines[i])}
        parsed == [i \in idx |-> BundleLine(lines[i])]
        failed == {i \in idx : parsed[i].raised # ""}
        names == {parsed[i].project_name : i \in idx}
        First(n) == CHOOSE i \in idx :
                        /\ parsed[i].project_name = n
                        /\ \A j \in idx : parsed[j].project_name = n => i <= j
    IN  IF failed # {}
        THEN [raised |-> parsed[CHOOSE i \in failed :
                                    \A j \in failed : i <= j].raised]
        ELSE [raised |-> "",
              lines |-> lines,
              bundle_lines |-> parsed,
              bundle_line_names |-> [n \in names |-> parsed[First(n)]]]

\* The loop of CMakeFile.__init__ over the lines of the manifest.  raised is ""
\* when the constructor returns and the message of the first BundleLine that
\* raised otherwise: the loop stops there and no object exists.
CMakeFileOf(lines) ==
    LET idx == {i \in 1..Len(lines) : _ecbuild_bundle_re(lines[i])}
        parsed == [i \in idx |-> BundleLine(lines[i])]
        failed == {i \in idx : parsed[i].raised # ""}
        names == {parsed[i].project_name : i \in idx}
    IN  IF failed # {}
        THEN [raised |-> parsed[CHOOSE i \in failed :
                                    \A j \in failed : i <= j].raised]
        ELSE [raised |-> "",
              lines |-> lines,
              bundle_lines |-> parsed,
              bundle_line_names |->
                 [n \in names |->
                    parsed[SetMax({i \in idx : parsed[i].project_name = n})]]]

\* A variant of CMakeFile that does not keep the blank lines of the manifest.
CMakeFileWithoutBlankLines(content) ==
    CMakeFileOf(SelectSeq(splitlines(content), LAMBDA line : line # ""))

\* CMakeFile(original_content)
CMakeFile(content) == CMakeFileOf(splitlines(content))

\* A variant of RewrittenLine that looks for a pin before it looks at the
\* enabled set.
RewrittenLinePinsFirst(self, i, enabled_bundles, rewrite_rules, build_group_commit_map) ==
    LET line == self.lines[i]
        bundle_line == self.bundle_lines[i]
    IN  IF i \notin DOMAIN self.bundle_lines
        THEN line \o "\n"
        ELSE IF /\ bundle_line.github_org_repo_key # NoneStr
                /\ bundle_line.github_org_repo_key \in DOMAIN build_group_commit_map
        THEN rewrite(bundle_line, NoneStr, NoneStr,
                     build_group_commit_map[bundle_line.github_org_repo_key]
                         .version_ref.commit).text \o "\n"
        ELSE IF bundle_line.project_name \in DOMAIN rewrite_rules
        THEN rewrite(bundle_line, NoneStr, NoneStr,
                     rewrite_rules[bundle_line.project_name]).text \o "\n"
        ELSE IF bundle_line.project_name \notin enabled_bundles
        THEN disabled_line(bundle_line) \o "\n"
        ELSE original_line(bundle_line) \o "\n"

\* A variant of RewrittenLine that decides line i by the BundleLine the name
\* index holds for its project, the last declaration of that name, instead of
\* the BundleLine of line i itself.
RewrittenLineByNameIndex(self, i, enabled_bundles, rewrite_rules, build_group_commit_map) ==
    LET line == self.lines[i]
        bundle_line ==
            self.bundle_line_names[self.bundle_lines[i].project_name]
    IN  IF i \notin DOMAIN self.bundle_lines
        THEN line \o "\n"
        ELSE IF bundle_line.project_name \notin enabled_bundles
        THEN disabled_line(bundle_line) \o "\n"
        ELSE IF /\ bundle_line.github_org_repo_key # NoneStr
                /\ bundle_line.github_org_repo_key \in DOMAIN build_group_commit_map
        THEN rewrite(bundle_line, NoneStr, NoneStr,
                     build_group_commit_map[bundle_line.github_org_repo_key]
                         .version_ref.commit).text \o "\n"
        ELSE IF bundle_line.project_name \in DOMAIN rewrite_rules
        THEN rewrite(bundle_line, NoneStr, NoneStr,
                     rewrite_rules[bundle_line.project_name]).text \o "\n"
        ELSE original_line(bundle_line) \o "\n"

\* The body of the loop of _rewrite_file_implementation for line i: the text
\* appended to the output list.
RewrittenLine(self, i, enabled_bundles, rewrite_rules, build_group_commit_map) ==
    LET line == self.lines[i]
        bundle_line == self.bundle_lines[i]
    IN  IF i \notin DOMAIN self.bundle_lines
        THEN line \o "\n"
        ELSE IF bundle_line.project_name \notin enabled_bundles
        THEN disabled_line(bundle_line) \o "\n"
        ELSE IF /\ bundle_line.github_org_repo_key # NoneStr
                /\ bundle_line.github_org_repo_key \in DOMAIN build_group_commit_map
        THEN rewrite(bundle_line, NoneStr, NoneStr,
                     build_group_commit_map[bundle_line.github_org_repo_key]
                         .version_ref.commit).text \o "\n"
        ELSE IF bundle_line.project_name \in DOMAIN rewrite_rules
        THEN rewrite(bundle_line, NoneStr, NoneStr,
                     rewrite_rules[bundle_line.project_name]).text \o "\n"
        ELSE original_line(bundle_line) \o "\n"

\* A variant of rewriteLeaves in which rewrite, given a tag, clears the
\* remote rule of the line itself instead of the local copy.
rewriteLeavesRemoteRuleCleared(self, git_repo, branch, tag) ==
    IF tag # NoneStr THEN [self EXCEPT !.remote_rule = None] ELSE self

\* The BundleLine as BundleLine.rewrite leaves it.  The method assigns to its
\* locals source_reference, version_ref, remote_rule, render_components and
\* content; render_components is a new list, so extending it does not extend
\* self.components; no field of self is assigned.
rewriteLeaves(self, git_repo, branch, tag) == self

\* The CMakeFile as one pass of the loop of _rewrite_file_implementation over
\* line i leaves it.  The pass appends to the local list lines; the only
\* method of the object it calls that is given arguments is
\* bundle_line.rewrite, on the object bundle_lines and bundle_line_names
\* share.
LoopPassLeaves(self, i, enabled_bundles, rewrite_rules, build_group_commit_map) ==
    LET bundle_line == self.bundle_lines[i]
        Left(tag) ==
            LET left == rewriteLeaves(bundle_line, NoneStr, NoneStr, tag)
            IN  [self EXCEPT
                    !.bundle_lines[i] = left,
                    !.bundle_line_names[bundle_line.project_name] =
                        IF @ = bundle_line THEN left ELSE @]
    IN  IF i \notin DOMAIN self.bundle_lines
        THEN self
        ELSE IF bundle_line.project_name \notin enabled_bundles
        THEN self
        ELSE IF /\ bundle_line.github_org_repo_key # NoneStr
                /\ bundle_line.github_org_repo_key \in DOMAIN build_group_commit_map
        THEN Left(build_group_commit_map[bundle_line.github_org_repo_key]
                      .version_ref.commit)
        ELSE IF bundle_line.project_name \in DOMAIN rewrite_rules
        THEN Left(rewrite_rules[bundle_line.project_name])
        ELSE self

\* A variant of _rewrite_file_implementation without the test that the two
\* maps are not both given: the build-group map then goes first, line by line.
_rewrite_file_implementationUnchecked(self, enabled_bundles, rewrite_rules, build_group_commit_map) ==
    [raised |-> FALSE,
     written |-> [i \in 1..Len(self.lines) |->
                     RewrittenLine(self, i, enabled_bundles, rewrite_rules,
                                   build_group_commit_map)]]

\* CMakeFile._rewrite_file_implementation(file_object, enabled_bundles,
\* rewrite_rules, build_group_commit_map).  An argument left None is replaced
\* by its empty default before anything reads it, so None is the empty set or
\* map here.  written is the list handed to file_object.writelines.
_rewrite_file_implementation(self, enabled_bundles, rewrite_rules, build_group_commit_map) ==
    IF DOMAIN rewrite_rules # {} /\ DOMAIN build_group_commit_map # {}
    THEN [raised |-> TRUE, written |-> <<>>]
    ELSE [raised |-> FALSE,
          written |-> [i \in 1..Len(self.lines) |->
                          RewrittenLine(self, i, enabled_bundles, rewrite_rules,
                                        build_group_commit_map)]]

\* An empty dict.
EmptyMap == [k \in {} |-> ""]

\* CMakeFile.basic_rewrite
basic_rewrite(self) ==
    _rewrite_file_implementation(self, DOMAIN self.bundle_line_names,
                                 EmptyMap, EmptyMap)

\* CMakeFile.rewrite_whitelist
rewrite_whitelist(self, enabled_bundles, rewrite_rules) ==
    _rewrite_file_implementation(self, enabled_bundles, rewrite_rules, EmptyMap)

\* A variant of rewrite_blacklist that takes the disabled names out of the
\* known names with set.remove, which raises KeyError for a name the manifest
\* does not declare.
rewrite_blacklistRemoving(self, disabled_bundles, rewrite_rules) ==
    IF disabled_bundles \subseteq DOMAIN self.bundle_line_names
    THEN _rewrite_file_implementation(
             self, DOMAIN self.bundle_line_names \ disabled_bundles,
             rewrite_rules, EmptyMap)
    ELSE [raised |-> TRUE, written |-> <<>>]

\* CMakeFile.rewrite_blacklist
rewrite_blacklist(self, disabled_bundles, rewrite_rules) ==
    _rewrite_file_implementation(
        self, DOMAIN self.bundle_line_names \ disabled_bundles,
        rewrite_rules, EmptyMap)

\* CMakeFile.rewrite_build_group_whitelist
rewrite_build_group_whitelist(self, enabled_bundles, build_group_commit_map) ==
    _rewrite_file_implementation(self, enabled_bundles, EmptyMap,
                                 build_group_commit_map)

\* CMakeFile.rewrite_build_group_blacklist
rewrite_build_group_blacklist(self, disabled_bundles, build_group_commit_map) ==
    _rewrite_file_implementation(
        self, DOMAIN self.bundle_line_names \ disabled_bundles,
        EmptyMap, build_group_commit_map)

-----------------------------------------------------------------------------
(* Declaration lines under test.  A line is built from a shape: the text  *)
(* of each clause ("" for a clause that is absent), the blank run that     *)
(* separates them, and how the call opens and closes.                      *)

Heads == {"ecbuild_bundle(", "  ecbuild_bundle(", "ecbuild_bundle ("}

Keywords == {"PROJECT", ""}

ProjectNames == {"oops", "\"oops\""}

SourceClauses ==
    {"GIT \"https://github.com/jcsda-internal/oops.git\"",
     "GIT 'https://github.com/JCSDA/OOPS'",
     "GIT \"http://github.com/o/oops.git\"",
     "GIT \"https://github.com/jcsda\"",
     "GIT \"https://gitlab.com/ecmwf/eckit.git\"",
     "GIT https://github.com/jcsda/oops.git",
     "SOURCE /path/to/source",
     "GIT \"https://github.com/jcsda/oops.git\" SOURCE /path/to/source",
     ""}

VersionClauses == {"BRANCH develop", "TAG 1.2.1", "BRANCH feature/x", ""}

RemoteClauses == {"UPDATE", "NOREMOTE", ""}

FlagClauses == {"", "MANUAL", "RECURSIVE", "MANUAL RECURSIVE", "RECURSIVE MANUAL"}

Closings == {" )", ")"}

Gaps == {" ", "  "}

\* The declaration of the repository's own tests (TYPICAL_GIT_BUNDLE_LINE,
\* written with single blanks).
TypicalShape ==
    [head |-> "ecbuild_bundle(", keyword |-> "PROJECT", name |-> "oops",
     source |-> "GIT \"https://github.com/jcsda-internal/oops.git\"",
     version |-> "BRANCH develop", remote |-> "UPDATE", flags |-> "",
     closing |-> " )", gap |-> " "]

\* In how many clauses a shape differs from TypicalShape.
Variations(d) == Cardinality({f \in DOMAIN d : d[f] # TypicalShape[f]})

\* The shapes under test differ from the typical declaration in at most this
\* many clauses at once.
MaxVariations == 2

LineShapes ==
    {d \in [head : Heads, keyword : Keywords, name : ProjectNames,
            source : SourceClauses, version : VersionClauses,
            remote : RemoteClauses, flags : FlagClauses, closing : Closings,
            gap : Gaps] : Variations(d) <= MaxVariations}

\* The clauses of a shape that are present, in grammar order.
Clauses(d) ==
    SelectSeq(<<d.keyword, d.name, d.source, d.version, d.remote, d.flags>>,
              LAMBDA c : c # "")

\* The text of the line a shape describes.
LineText(d) == d.head \o " " \o Join(Clauses(d), d.gap) \o d.closing

-----------------------------------------------------------------------------
(* One BundleLine: construct it, serialize it, and parse and serialize the *)
(* serializer's own output again.                                          *)

PinValues == {"abc123", "1337h4x0r"}

\* No BundleLine, no CMakeFile and no shared CMakeFile is under test.
LineIdle ==
    /\ bl_desc = None
    /\ bl_content = ""
    /\ bl_pc = "unused"
    /\ bl = None
    /\ emit_call = None
    /\ emitted = ""
    /\ reparsed = None
    /\ reemitted = ""

FileIdle ==
    /\ manifest = <<>>
    /\ original_content = ""
    /\ cm_pc = "unused"
    /\ cmake_file = None
    /\ rw_call = None
    /\ file_object = <<>>

SharedIdle == calls = <<>>

AnnIdle ==
    /\ description = <<>>
    /\ trigger = None
    /\ pr_payload = None
    /\ ann_pc = "unused"
    /\ pr_body = ""
    /\ build_group_matches = <<>>
    /\ test_annotations = None

ConfigIdle ==
    /\ environ = None
    /\ config_pc = "unused"
    /\ config = None

BatchIdle ==
    /\ batch_args = None
    /\ jobSummaryList = <<>>
    /\ batch_pc = "unused"
    /\ jobs_to_cancel = <<>>
    /\ cancelled_jobs = <<>>
    /\ batch_requests = <<>>

CheckRunsIdle ==
    /\ commit_check_runs = <<>>
    /\ history_limit = 0
    /\ cr_pc = "unused"
    /\ commits = <<>>
    /\ trigger_commit = 0
    /\ found_jedi_check_runs = FALSE
    /\ fetched = <<>>
    /\ edits = {}
    /\ github_check_runs = <<>>

EventIdle ==
    /\ event = None
    /\ handler_pc = "unused"
    /\ response = None
    /\ process_pc = "unused"
    /\ manifest_request = ""
    /\ build_info_payload = None
    /\ futures = EmptyMap
    /\ created_check_runs = <<>>
    /\ handled = {}
    /\ jobs = <<>>

ServicesIdle == ConfigIdle /\ BatchIdle /\ CheckRunsIdle /\ EventIdle

Unbound == [bound |-> FALSE, ref_name |-> "", commit_sha |-> ""]

GroupIdle ==
    /\ test_manifest = <<>>
    /\ build_group_map = EmptyMap
    /\ gather_pc = "unused"
    /\ gather_i = 0
    /\ gather_group = <<>>
    /\ gather_locals = Unbound
    /\ lookups = <<>>
    /\ pr_group = None

InitLine ==
    /\ bl_desc \in LineShapes
    /\ bl_content = LineText(bl_desc)
    /\ bl_pc = "new"
    /\ bl = None
    /\ emit_call = None
    /\ emitted = ""
    /\ reparsed = None
    /\ reemitted = ""
    /\ FileIdle
    /\ SharedIdle
    /\ AnnIdle
    /\ GroupIdle
    /\ ServicesIdle

\* bl = BundleLine(content)
Construct ==
    /\ bl_pc = "new"
    /\ bl' = BundleLine(bl_content)
    /\ bl_pc' = IF bl'.raised = "" THEN "parsed" ELSE "raised"
    /\ UNCHANGED <<bl_desc, bl_content, emit_call, emitted, reparsed, reemitted>>
    /\ UNCHANGED notLineVars

\* bl.rewrite_original()
CallRewriteOriginal ==
    /\ bl_pc = "parsed"
    /\ emit_call' = [method |-> "rewrite_original", git_repo |-> NoneStr,
                     branch |-> NoneStr, tag |-> NoneStr]
    /\ emitted' = rewrite_original(bl)
    /\ bl_pc' = "emitted"
    /\ UNCHANGED <<bl_desc, bl_content, bl, reparsed, reemitted>>
    /\ UNCHANGED notLineVars

\* bl.rewrite(git_repo=..., branch=..., tag=...)
CallRewrite(git_repo, branch, tag) ==
    /\ bl_pc = "parsed"
    /\ emit_call' = [method |-> "rewrite", git_repo |-> git_repo,
                     branch |-> branch, tag |-> tag]
    /\ LET r == rewrite(bl, git_repo, branch, tag)
       IN  /\ emitted' = r.text
           /\ bl_pc' = IF r.raised THEN "rewrite_raised" ELSE "emitted"
    /\ UNCHANGED <<bl_desc, bl_content, bl, reparsed, reemitted>>
    /\ UNCHANGED notLineVars

\* BundleLine(emitted), serialized by the same method with no new pin
Reserialize ==
    /\ bl_pc = "emitted"
    /\ reparsed' = BundleLine(emitted)
    /\ reemitted' =
          IF reparsed'.raised # "" THEN ""
          ELSE IF emit_call.method = "rewrite_original"
          THEN rewrite_original(reparsed')
          ELSE rewrite(reparsed', NoneStr, NoneStr, NoneStr).text
    /\ bl_pc' = "reparsed"
    /\ UNCHANGED <<bl_desc, bl_content, bl, emit_call, emitted>>
    /\ UNCHANGED notLineVars

NextLine ==
    \/ Construct
    \/ CallRewriteOriginal
    \/ \E git_repo \in {NoneStr, "https://github.com/otherorg/otherrepo.git"},
          branch \in {NoneStr, "newbranch"},
          tag \in {NoneStr} \cup PinValues :
            CallRewrite(git_repo, branch, tag)
    \/ Reserialize

SpecLine == InitLine /\ [][NextLine]_vars

-----------------------------------------------------------------------------
(* One CMakeFile: construct it from a manifest and call a rewrite method.  *)

\* The lines a manifest under test is made of: the kinds of line of the
\* repository's test manifest (ORIGINAL_CMAKE_FILE), a second declaration of
\* oops from another repository, declarations without a GitHub key, and one
\* declaration BundleLine cannot parse.
CommentedOutLine ==
    "#ecbuild_bundle( PROJECT eckit    GIT \"https://github.com/ecmwf/eckit.git\" TAG 1.24.4 )"

OopsLine ==
    "ecbuild_bundle( PROJECT oops     GIT \"https://github.com/jcsda-internal/oops.git\"       BRANCH develop UPDATE )"

RttovLine ==
    "  ecbuild_bundle( PROJECT rttov    GIT \"https://github.com/JCSDA-internal/rttov.git\" BRANCH develop  UPDATE  RECURSIVE )"

OopsForkLine ==
    "ecbuild_bundle( PROJECT oops GIT \"https://github.com/jcsda/oops.git\" TAG 1.0.0 NOREMOTE MANUAL )"

CrtmLine == "ecbuild_bundle( PROJECT crtm SOURCE /path/to/crtm )"

EckitLine ==
    "ecbuild_bundle( PROJECT eckit GIT \"https://gitlab.com/ecmwf/eckit.git\" TAG 1.24.4 )"

GsibecLine ==
    "ecbuild_bundle( PROJECT gsibec GIT \"http://github.com/g/gsibec\" BRANCH develop NOREMOTE )"

IodaLine ==
    "ecbuild_bundle( PROJECT ioda GIT https://github.com/jcsda-internal/ioda.git BRANCH develop )"

ManifestLines ==
    {"",
     "# Simple Git Bundle - will be updated to a tag.",
     CommentedOutLine,
     "if(BUILD_RTTOV)",
     "ecbuild_bundle_finalize()",
     OopsLine, RttovLine, OopsForkLine, CrtmLine, EckitLine, GsibecLine,
     IodaLine}

\* A manifest under test has at most this many lines.
MaxLines == 2

Manifests == UNION {[1..n -> ManifestLines] : n \in 0..MaxLines}

\* The text of a manifest: every line ends with a line feed.
RECURSIVE ManifestText(_)
ManifestText(lines) ==
    IF Len(lines) = 0 THEN ""
    ELSE Head(lines) \o "\n" \o ManifestText(Tail(lines))

\* A project no manifest line declares.
OtherProject == "ufo"

\* The explicit pins a caller may hold (rewrite_rules: project name -> tag); a
\* call passes the pins of some of the projects.
AllRewriteRules ==
    [n \in {"oops", "rttov", "crtm", "eckit", "gsibec", "ioda", OtherProject} |->
        CASE n = "oops" -> "abc123"
          [] n = "rttov" -> "1337h4x0r"
          [] n = "crtm" -> "v2.0.0"
          [] n = "eckit" -> "1.25.0"
          [] n = "gsibec" -> "1.2.2"
          [] n = "ioda" -> "2.9.0"
          [] OTHER -> "v1.2.3"]

\* A repository no manifest line names.
OtherRepo == "jcsda/ufo"

\* A resolved build group (build_group_commit_map: "org/repo" -> commit info,
\* as gather_pr_group builds it); a call passes the entries of some of the
\* repositories.
AllBuildGroupCommits ==
    [k \in {"jcsda-internal/oops", "jcsda-internal/rttov", "jcsda/oops",
            "ecmwf/eckit", "g/gsibec", "jcsda-internal/ioda", OtherRepo} |->
        [name_key |-> k,
         uri |-> "https://github.com/" \o k \o ".git",
         version_ref |->
            [branch |-> "feature/build-group",
             commit |->
                CASE k = "jcsda-internal/oops" -> "174cf5175ba0"
                  [] k = "jcsda-internal/rttov" -> "2b9d0e6f1c33"
                  [] k = "jcsda/oops" -> "9e107d9d372b"
                  [] k = "ecmwf/eckit" -> "e4d909c290d0"
                  [] k = "g/gsibec" -> "7c211433f020"
                  [] k = "jcsda-internal/ioda" -> "5d41402abc4b"
                  [] OTHER -> "0cc175b9c0f1"]]]

\* f restricted to the keys in S
Restrict(f, S) == [k \in S |-> f[k]]

\* The project names the arguments of a call on self may mention: those the
\* manifest declares and one it does not.
NamePool(self) == DOMAIN self.bundle_line_names \cup {OtherProject}

\* The repositories a build group passed to a call on self may hold: those
\* whose org/repo occurs in a line of the manifest and one that does not.
RepoPool(self) ==
    {k \in DOMAIN AllBuildGroupCommits :
        \E i \in 1..Len(self.lines) : Contains(Lower(self.lines[i]), k)}
    \cup {OtherRepo}

\* A direct call of _rewrite_file_implementation passes at most this many
\* entries in each of its two maps.
MaxDirectPins == 1

Init ==
    /\ manifest \in Manifests
    /\ original_content = ManifestText(manifest)
    /\ cm_pc = "new"
    /\ cmake_file = None
    /\ rw_call = None
    /\ file_object = <<>>
    /\ LineIdle
    /\ SharedIdle
    /\ AnnIdle
    /\ GroupIdle
    /\ ServicesIdle

\* cmake_file = CMakeFile(original_content)
ConstructFile ==
    /\ cm_pc = "new"
    /\ cmake_file' = CMakeFile(original_content)
    /\ cm_pc' = IF cmake_file'.raised = "" THEN "constructed"
                ELSE "construct_raised"
    /\ UNCHANGED <<manifest, original_content, rw_call, file_object>>
    /\ UNCHANGED notFileVars

\* What a rewrite method leaves behind: the call, and a fresh file_object
\* holding what the call wrote.
Called(method, bundles, rewrite_rules, build_group_commit_map, result) ==
    /\ rw_call' = [method |-> method, bundles |-> bundles,
                   rewrite_rules |-> rewrite_rules,
                   build_group_commit_map |-> build_group_commit_map]
    /\ file_object' = result.written
    /\ cm_pc' = IF result.raised THEN "rewrite_raised" ELSE "rewritten"
    /\ UNCHANGED <<manifest, original_content, cmake_file>>
    /\ UNCHANGED notFileVars

\* cmake_file.basic_rewrite(file_object)
CallBasicRewrite ==
    /\ cm_pc = "constructed"
    /\ Called("basic_rewrite", {}, EmptyMap, EmptyMap, basic_rewrite(cmake_file))

\* cmake_file.rewrite_whitelist(file_object, enabled_bundles, rewrite_rules)
CallRewriteWhitelist(enabled_bundles, rewrite_rules) ==
    /\ cm_pc = "constructed"
    /\ Called("rewrite_whitelist", enabled_bundles, rewrite_rules, EmptyMap,
              rewrite_whitelist(cmake_file, enabled_bundles, rewrite_rules))

\* cmake_file.rewrite_blacklist(file_object, disabled_bundles, rewrite_rules)
CallRewriteBlacklist(disabled_bundles, rewrite_rules) ==
    /\ cm_pc = "constructed"
    /\ Called("rewrite_blacklist", disabled_bundles, rewrite_rules, EmptyMap,
              rewrite_blacklist(cmake_file, disabled_bundles, rewrite_rules))

\* cmake_file.rewrite_build_group_whitelist(file_object, enabled_bundles,
\*                                          build_group_commit_map)
CallRewriteBuildGroupWhitelist(enabled_bundles, build_group_commit_map) ==
    /\ cm_pc = "constructed"
    /\ Called("rewrite_build_group_whitelist", enabled_bundles, EmptyMap,
              build_group_commit_map,
              rewrite_build_group_whitelist(cmake_file, enabled_bundles,
                                            build_group_commit_map))

\* cmake_file.rewrite_build_group_blacklist(file_object, disabled_bundles,
\*                                          build_group_commit_map)
CallRewriteBuildGroupBlacklist(disabled_bundles, build_group_commit_map) ==
    /\ cm_pc = "constructed"
    /\ Called("rewrite_build_group_blacklist", disabled_bundles, EmptyMap,
              build_group_commit_map,
              rewrite_build_group_blacklist(cmake_file, disabled_bundles,
                                            build_group_commit_map))

\* cmake_file._rewrite_file_implementation(file_object, enabled_bundles,
\*     rewrite_rules, build_group_commit_map), called with both maps or with
\* neither: the two ways no public method calls it.
CallRewriteFileImplementation(enabled_bundles, rewrite_rules, build_group_commit_map) ==
    /\ cm_pc = "constructed"
    /\ (DOMAIN rewrite_rules = {}) <=> (DOMAIN build_group_commit_map = {})
    /\ Called("_rewrite_file_implementation", enabled_bundles, rewrite_rules,
              build_group_commit_map,
              _rewrite_file_implementation(cmake_file, enabled_bundles,
                                           rewrite_rules,
                                           build_group_commit_map))

\* The arguments of the calls are drawn from the pools of the constructed
\* file; without a CMakeFile there is nothing to call.
CallWithRules ==
    /\ cm_pc = "constructed"
    /\ LET names == NamePool(cmake_file)
       IN  \E bundles \in SUBSET names, pinned \in SUBSET names :
             \/ CallRewriteWhitelist(bundles, Restrict(AllRewriteRules, pinned))
             \/ CallRewriteBlacklist(bundles, Restrict(AllRewriteRules, pinned))

CallWithBuildGroup ==
    /\ cm_pc = "constructed"
    /\ LET names == NamePool(cmake_file)
           repos == RepoPool(cmake_file)
       IN  \E bundles \in SUBSET names, group \in SUBSET repos :
             \/ CallRewriteBuildGroupWhitelist(
                    bundles, Restrict(AllBuildGroupCommits, group))
             \/ CallRewriteBuildGroupBlacklist(
                    bundles, Restrict(AllBuildGroupCommits, group))

CallDirect ==
    /\ cm_pc = "constructed"
    /\ LET names == NamePool(cmake_file)
           repos == RepoPool(cmake_file)
       IN  \E bundles \in SUBSET names,
              pinned \in {S \in SUBSET names : Cardinality(S) <= MaxDirectPins},
              group \in {S \in SUBSET repos : Cardinality(S) <= MaxDirectPins} :
                CallRewriteFileImplementation(
                    bundles, Restrict(AllRewriteRules, pinned),
                    Restrict(AllBuildGroupCommits, group))

Next ==
    \/ ConstructFile
    \/ CallBasicRewrite
    \/ CallWithRules
    \/ CallWithBuildGroup
    \/ CallDirect

Spec == Init /\ [][Next]_vars

-----------------------------------------------------------------------------
(* Several rewrite calls on one CMakeFile: the unit stage and the           *)
(* integration stage write their manifests from the same object, and the    *)
(* passes of their loops may interleave.                                    *)

Callers == {"unit", "integration"}

\* The manifests the stages share.
SharedManifests ==
    {<<OopsLine, RttovLine>>,
     <<OopsLine, OopsForkLine>>,
     <<"# Simple Git Bundle - will be updated to a tag.", CrtmLine>>}

\* A caller that has not called yet.
NoCall ==
    [pc |-> "idle", enabled_bundles |-> {}, rewrite_rules |-> EmptyMap,
     build_group_commit_map |-> EmptyMap, i |-> 0, lines |-> <<>>,
     file_object |-> <<>>]

InitShared ==
    /\ manifest \in SharedManifests
    /\ original_content = ManifestText(manifest)
    /\ cm_pc = "shared"
    /\ cmake_file = CMakeFile(original_content)
    /\ rw_call = None
    /\ file_object = <<>>
    /\ calls = [c \in Callers |-> NoCall]
    /\ LineIdle
    /\ AnnIdle
    /\ GroupIdle
    /\ ServicesIdle

\* Caller c enters _rewrite_file_implementation with a fresh file_object:
\* the arguments pass the test of the two maps and lines = [].
EnterRewrite(c, enabled_bundles, rewrite_rules, build_group_commit_map) ==
    /\ calls[c].pc \in {"idle", "written"}
    /\ ~(DOMAIN rewrite_rules # {} /\ DOMAIN build_group_commit_map # {})
    /\ calls' = [calls EXCEPT ![c] =
                    [pc |-> "loop", enabled_bundles |-> enabled_bundles,
                     rewrite_rules |-> rewrite_rules,
                     build_group_commit_map |-> build_group_commit_map,
                     i |-> 1, lines |-> <<>>, file_object |-> <<>>]]
    /\ UNCHANGED <<fileVars, lineVars, annVars, groupVars, serviceVars>>

\* One pass of the loop of caller c: line i of the shared object.
LoopPass(c) ==
    LET call == calls[c]
    IN  /\ call.pc = "loop"
        /\ call.i <= Len(cmake_file.lines)
        /\ calls' = [calls EXCEPT
                        ![c].lines =
                            Append(@, RewrittenLine(cmake_file, call.i,
                                                    call.enabled_bundles,
                                                    call.rewrite_rules,
                                                    call.build_group_commit_map)),
                        ![c].i = @ + 1]
        /\ cmake_file' = LoopPassLeaves(cmake_file, call.i,
                                        call.enabled_bundles,
                                        call.rewrite_rules,
                                        call.build_group_commit_map)
        /\ UNCHANGED <<manifest, original_content, cm_pc, rw_call, file_object>>
        /\ UNCHANGED <<lineVars, annVars, groupVars, serviceVars>>

\* file_object.writelines(lines) of caller c, after its loop.
WriteLines(c) ==
    LET call == calls[c]
    IN  /\ call.pc = "loop"
        /\ call.i > Len(cmake_file.lines)
        /\ calls' = [calls EXCEPT ![c].pc = "written",
                                  ![c].file_object = call.lines]
        /\ UNCHANGED <<fileVars, lineVars, annVars, groupVars, serviceVars>>

\* A stage enables some of the declared projects and passes explicit pins, a
\* resolved build group, or neither.
Enter(c) ==
    LET names == DOMAIN cmake_file.bundle_line_names
        rewrite_rules == Restrict(AllRewriteRules, names)
        build_group_commit_map ==
            Restrict(AllBuildGroupCommits, RepoPool(cmake_file))
    IN  /\ calls[c].pc \in {"idle", "written"}
        /\ \E enabled_bundles \in SUBSET names :
              \/ EnterRewrite(c, enabled_bundles, EmptyMap, EmptyMap)
              \/ EnterRewrite(c, enabled_bundles, rewrite_rules, EmptyMap)
              \/ EnterRewrite(c, enabled_bundles, EmptyMap,
                              build_group_commit_map)

NextShared ==
    \E c \in Callers :
        \/ Enter(c)
        \/ LoopPass(c)
        \/ WriteLines(c)

SpecShared == InitShared /\ [][NextShared]_vars

-----------------------------------------------------------------------------
(* pr_resolve.py: the directives of a pull request description.             *)

\* \s in a description whose line boundaries read_test_annotations has
\* turned into "\n".
PrWhitespace == {" ", "\t", "\n"}

\* [a-zA-Z0-9\/:#\._-]
LinkChars == LowerLetters \cup UpperLetters \cup Digits \cup {"/", ":", "#", ".", "_", "-"}

\* [a-zA-Z]
Letters == LowerLetters \cup UpperLetters

SetMin(S) == CHOOSE x \in S : \A y \in S : x <= y

\* Whether lit stands in s at position i, letter case aside (re.IGNORECASE).
LitAtIgnoreCase(s, i, lit) ==
    /\ i >= 1
    /\ i + Len(lit) - 1 <= Len(s)
    /\ Lower(SubSeq(s, i, i + Len(lit) - 1)) = Lower(lit)

\* \s*$ under re.MULTILINE tried at q: the position after the longest run of
\* whitespace that stops at the end of the text or before a "\n"; 0 when no
\* run does.
TailEnd(body, q) ==
    LET e == RunEnd(body, q, PrWhitespace)
        K == {k \in q..e : k = Len(body) + 1 \/ CharAt(body, k) = "\n"}
    IN  IF K = {} THEN 0 ELSE SetMax(K)

\* (cls{min,max}) tried at q: the greedy match first, then the shorter ones.
RunCandidates(body, q, cls, min, max) ==
    LET run == RunEnd(body, q, cls) - q
        hi == IF run < max THEN run ELSE max
    IN  IF hi < min THEN <<>>
        ELSE [k \in 1..(hi - min + 1) |->
                 [end |-> q + hi - k + 1,
                  group |-> SubSeq(body, q, q + hi - k)]]

\* (a|b|...) tried at q: the alternatives that stand there, in their order.
AltCandidates(body, q, alts) ==
    LET Stands(a) == LitAtIgnoreCase(body, q, a)
        standing == SelectSeq(alts, Stands)
    IN  [k \in 1..Len(standing) |->
            [end |-> q + Len(standing[k]),
             group |-> SubSeq(body, q, q + Len(standing[k]) - 1)]]

\* A group followed by ?: when it does not take part the match goes on at q
\* and findall reports the empty string.
Absent(q) == <<[end |-> q, group |-> ""]>>

\* The value part of each directive pattern tried at q: the ways it can
\* match, in the order the regular expression tries them.
ValueCandidates(key, body, q) ==
    CASE key = "build-group" -> RunCandidates(body, q, LinkChars, 10, 70)
      [] key = "jedi-ci-build-cache" -> AltCandidates(body, q, <<"skip", "rebuild">>)
      [] key = "run-ci-on-draft" -> RunCandidates(body, q, Letters, 0, 10)
      [] key \in {"jedi-ci-debug", "jedi-ci-next"} ->
            IF LitAtIgnoreCase(body, q, "t")
            THEN (IF LitAtIgnoreCase(body, q + 1, "rue")
                  THEN <<[end |-> q + 4, group |-> SubSeq(body, q + 1, q + 3)]>>
                  ELSE <<>>)
                 \o <<[end |-> q + 1, group |-> ""]>>
            ELSE <<>>
      [] key = "jedi-ci-test-select" ->
            AltCandidates(body, q, <<"random", "all", "intel", "gcc", "gcc11">>)
            \o Absent(q)
      [] key \in {"jedi-ci-bundle-branch", "jedi-ci-manifest-branch"} ->
            RunCandidates(body, q, LinkChars, 1, 70) \o Absent(q)

\* The first of the tries after which \s*$ matches, and where that match
\* ends.
FirstGood(body, tries) ==
    LET good == {k \in 1..Len(tries) : TailEnd(body, tries[k].end) # 0}
    IN  IF good = {}
        THEN [matched |-> FALSE, group |-> "", end |-> 0]
        ELSE [matched |-> TRUE,
              group |-> tries[SetMin(good)].group,
              end |-> TailEnd(body, tries[SetMin(good)].end)]

\* ^key\s?=\s?(value)\s*$ tried at the line start p, with re.MULTILINE and
\* re.IGNORECASE.  Each \s? takes a whitespace character when one stands
\* there, a line feed included, and gives it back when the rest fails.
DirectiveAt(body, p, key) ==
    LET a == p + Len(key)
        eq == IF CharAt(body, a) \in PrWhitespace THEN a + 1 ELSE a
        v == eq + 1
    IN  IF /\ LitAtIgnoreCase(body, p, key)
           /\ CharAt(body, eq) = "="
        THEN FirstGood(body,
                 (IF CharAt(body, v) \in PrWhitespace
                  THEN ValueCandidates(key, body, v + 1) ELSE <<>>)
                 \o ValueCandidates(key, body, v))
        ELSE [matched |-> FALSE, group |-> "", end |-> 0]

\* regex.findall(body) for a directive pattern: the groups of its matches
\* from position p on, in the order of the text.  The search tries the
\* pattern at the next line start q, and goes on after the match m or, when
\* there is none, after q.
RECURSIVE FindAllFrom(_, _, _)
FindAllFrom(body, p, key) ==
    LET starts == {q \in p..Len(body) : q = 1 \/ CharAt(body, q - 1) = "\n"}
        Tried(q, m) ==
            IF m.matched
            THEN <<m.group>> \o FindAllFrom(body, m.end, key)
            ELSE FindAllFrom(body, q + 1, key)
    IN  IF starts = {} THEN <<>>
        ELSE Tried(SetMin(starts), DirectiveAt(body, SetMin(starts), key))

BUILD_GROUP_RE(body) == FindAllFrom(body, 1, "build-group")
CACHE_BEHAVIOR_RE(body) == FindAllFrom(body, 1, "jedi-ci-build-cache")
DRAFT_PR_RUN_RE(body) == FindAllFrom(body, 1, "run-ci-on-draft")
DEBUG_CI_RE(body) == FindAllFrom(body, 1, "jedi-ci-debug")
NEXT_CI_RE(body) == FindAllFrom(body, 1, "jedi-ci-next")
CI_TEST_SELECT_RE(body) == FindAllFrom(body, 1, "jedi-ci-test-select")
JEDI_BUNDLE_BRANCH_RE(body) == FindAllFrom(body, 1, "jedi-ci-bundle-branch")
MANIFEST_BRANCH_RE(body) == FindAllFrom(body, 1, "jedi-ci-manifest-branch")

\* BUILD_GROUP_LINK tried at position s of member: owner, "/", repo, "#" or
\* "/pull/", number, \s*$.  Neither name class holds "/" or "#", so each
\* greedy run can only be followed by what the pattern wants when it is taken
\* whole; a run longer than the pattern allows makes the try fail.
LinkAt(member, s) ==
    LET e == RunEnd(member, s, NameChars)
        r == RunEnd(member, e + 1, NameChars)
        d == IF CharAt(member, r) = "#" THEN r + 1
             ELSE IF LitAt(member, r, "/pull/") THEN r + 6
             ELSE 0
        de == RunEnd(member, d, Digits)
    IN  IF /\ e - s >= 3 /\ e - s <= 30
           /\ CharAt(member, e) = "/"
           /\ r - (e + 1) >= 3 /\ r - (e + 1) <= 40
           /\ d # 0
           /\ de - d >= 1 /\ de - d <= 7
           /\ RunEnd(member, de, PrWhitespace) = Len(member) + 1
        THEN [matched |-> TRUE,
              owner |-> SubSeq(member, s, e - 1),
              repo |-> SubSeq(member, e + 1, r - 1),
              pull_number |-> SubSeq(member, d, de - 1)]
        ELSE [matched |-> FALSE, owner |-> "", repo |-> "", pull_number |-> ""]

\* A variant of BUILD_GROUP_LINK without the closing \s*$: a reference
\* followed by more path counts.
BUILD_GROUP_LINKUnanchored(member) ==
    LET At(s) ==
            LET e == RunEnd(member, s, NameChars)
                r == RunEnd(member, e + 1, NameChars)
                d == IF CharAt(member, r) = "#" THEN r + 1
                     ELSE IF LitAt(member, r, "/pull/") THEN r + 6
                     ELSE 0
                de == RunEnd(member, d, Digits)
            IN  IF /\ e - s >= 3 /\ e - s <= 30
                   /\ CharAt(member, e) = "/"
                   /\ r - (e + 1) >= 3 /\ r - (e + 1) <= 40
                   /\ d # 0
                   /\ de - d >= 1
                THEN [matched |-> TRUE,
                      owner |-> SubSeq(member, s, e - 1),
                      repo |-> SubSeq(member, e + 1, r - 1),
                      pull_number |-> SubSeq(member, d, de - 1)]
                ELSE [matched |-> FALSE, owner |-> "", repo |-> "",
                      pull_number |-> ""]
        S == {s \in 1..Len(member) : At(s).matched}
    IN  IF S = {} THEN At(0) ELSE At(SetMin(S))

\* BUILD_GROUP_LINK.search(member): the match that starts leftmost.
BUILD_GROUP_LINK(member) ==
    LET S == {s \in 1..Len(member) : LinkAt(member, s).matched}
    IN  IF S = {} THEN LinkAt(member, 0) ELSE LinkAt(member, SetMin(S))

DigitValue(c) ==
    CASE c = "0" -> 0 [] c = "1" -> 1 [] c = "2" -> 2 [] c = "3" -> 3
      [] c = "4" -> 4 [] c = "5" -> 5 [] c = "6" -> 6 [] c = "7" -> 7
      [] c = "8" -> 8 [] c = "9" -> 9

\* int(digits)
RECURSIVE Int(_)
Int(digits) ==
    IF Len(digits) = 0 THEN 0
    ELSE 10 * Int(SubSeq(digits, 1, Len(digits) - 1))
         + DigitValue(CharAt(digits, Len(digits)))

\* pr_map[key] = value
SetItem(pr_map, key, value) ==
    [k \in DOMAIN pr_map \cup {key} |-> IF k = key THEN value ELSE pr_map[k]]

\* A variant of get_build_group_pr_map that keeps the first reference to a
\* repository instead of the last.
RECURSIVE get_build_group_pr_mapFirstWins(_)
get_build_group_pr_mapFirstWins(build_group_members) ==
    IF Len(build_group_members) = 0 THEN EmptyMap
    ELSE LET pr_map == get_build_group_pr_mapFirstWins(
                           SubSeq(build_group_members, 1,
                                  Len(build_group_members) - 1))
             member_match ==
                 BUILD_GROUP_LINK(build_group_members[Len(build_group_members)])
             key == Lower(member_match.owner) \o "/" \o Lower(member_match.repo)
         IN  IF ~member_match.matched \/ key \in DOMAIN pr_map THEN pr_map
             ELSE SetItem(pr_map, key, Int(member_match.pull_number))

\* get_build_group_pr_map: the members are taken in order, so the map of a
\* list is the map of all but its last member, updated by the last.
RECURSIVE get_build_group_pr_map(_)
get_build_group_pr_map(build_group_members) ==
    IF Len(build_group_members) = 0 THEN EmptyMap
    ELSE LET pr_map == get_build_group_pr_map(
                           SubSeq(build_group_members, 1,
                                  Len(build_group_members) - 1))
             member_match ==
                 BUILD_GROUP_LINK(build_group_members[Len(build_group_members)])
         IN  IF ~member_match.matched THEN pr_map
             ELSE SetItem(pr_map,
                          Lower(member_match.owner) \o "/"
                              \o Lower(member_match.repo),
                          Int(member_match.pull_number))

\* The valid build environments and the two ways to choose among them.
TestSelections == {"random", "all", "intel", "gcc", "gcc11"}

\* read_test_annotations, lines 174-178.
TestSelect(test_select_found) ==
    IF Len(test_select_found) > 0 THEN test_select_found[1] ELSE "random"

\* A variant of the annotations in which a branch directive makes the run
\* skip the cache but leaves a requested cache rebuild on.
TestAnnotationsRebuildKept(draft, members, cache_behavior, draft_pr_note, debug, next, test_select_found, bundle_branch_config, manifest_branch_config) ==
    LET cache == IF Len(cache_behavior) > 0 THEN Lower(cache_behavior[1]) ELSE ""
        run_tests ==
            IF ~draft THEN TRUE
            ELSE /\ Len(draft_pr_note) > 0
                 /\ Lower(draft_pr_note[1]) \in {"t", "true", "yes"}
        branch_given == Len(bundle_branch_config) > 0 \/ Len(manifest_branch_config) > 0
    IN  [build_group_map |-> get_build_group_pr_map(members),
         skip_cache |->
            IF branch_given \/ cache \in {"skip", "rebuild"}
            THEN "true" ELSE "false",
         rebuild_cache |->
            IF cache = "rebuild"
            THEN "true" ELSE "false",
         run_tests |-> run_tests,
         debug_mode |-> Len(debug) > 0,
         next_ci_suffix |-> IF Len(next) > 0 THEN "-next" ELSE "",
         test_select |-> TestSelect(test_select_found),
         jedi_bundle_branch |->
            IF Len(bundle_branch_config) > 0
            THEN bundle_branch_config[1] ELSE "",
         jedi_ci_manifest_branch |->
            IF Len(manifest_branch_config) > 0
            THEN manifest_branch_config[1] ELSE ""]

\* read_test_annotations, lines 137-211: the annotations, given what each
\* directive pattern found in the body.
TestAnnotations(draft, members, cache_behavior, draft_pr_note, debug, next, test_select_found, bundle_branch_config, manifest_branch_config) ==
    LET cache == IF Len(cache_behavior) > 0 THEN Lower(cache_behavior[1]) ELSE ""
        run_tests ==
            IF ~draft THEN TRUE
            ELSE /\ Len(draft_pr_note) > 0
                 /\ Lower(draft_pr_note[1]) \in {"t", "true", "yes"}
        branch_given == Len(bundle_branch_config) > 0 \/ Len(manifest_branch_config) > 0
    IN  [build_group_map |-> get_build_group_pr_map(members),
         skip_cache |->
            IF branch_given \/ cache \in {"skip", "rebuild"}
            THEN "true" ELSE "false",
         rebuild_cache |->
            IF ~branch_given /\ cache = "rebuild"
            THEN "true" ELSE "false",
         run_tests |-> run_tests,
         debug_mode |-> Len(debug) > 0,
         next_ci_suffix |-> IF Len(next) > 0 THEN "-next" ELSE "",
         test_select |-> TestSelect(test_select_found),
         jedi_bundle_branch |->
            IF Len(bundle_branch_config) > 0
            THEN bundle_branch_config[1] ELSE "",
         jedi_ci_manifest_branch |->
            IF Len(manifest_branch_config) > 0
            THEN manifest_branch_config[1] ELSE ""]

\* read_test_annotations, lines 130-135 and 137-211, on the body of the
\* payload.
ReadBody(body, draft) ==
    [raised |-> "",
     pr_body |-> body,
     build_group_members |-> BUILD_GROUP_RE(body),
     annotations |->
        TestAnnotations(draft, BUILD_GROUP_RE(body), CACHE_BEHAVIOR_RE(body),
                        DRAFT_PR_RUN_RE(body), DEBUG_CI_RE(body),
                        NEXT_CI_RE(body), CI_TEST_SELECT_RE(body),
                        JEDI_BUNDLE_BRANCH_RE(body), MANIFEST_BRANCH_RE(body))]

\* read_test_annotations(repo_uri, pr_number, pr_payload) for a caller that
\* passes the payload of the event, as process_event does.  A pull request
\* without a description has the body None, on which splitlines raises
\* AttributeError.
read_test_annotations(repo_uri, pr_number, payload) ==
    IF payload.body_is_none
    THEN [raised |-> "AttributeError", pr_body |-> "",
          build_group_members |-> <<>>, annotations |-> None]
    ELSE ReadBody(Join(splitlines(payload.body), "\n"), payload.draft)

-----------------------------------------------------------------------------
(* The descriptions under test.                                             *)

UrlReference == "build-group=https://github.com/JCSDA-internal/oops/pull/12"
ShortReference == "build-group=jcsda-internal/oops#13"
SpacedReference == "Build-Group = jcsda-internal/ioda#0007  "
FilesReference == "build-group=https://github.com/jcsda-internal/oops/pull/14/files"
EmptySelect == "jedi-ci-test-select="
UpperSelect == "jedi-ci-test-select = Intel"
UnknownSelect == "jedi-ci-test-select=clang"

DescriptionLines ==
    {UrlReference, ShortReference, SpacedReference, FilesReference,
     "jedi-ci-test-select=gcc11", EmptySelect, UpperSelect, UnknownSelect,
     "Fixes the solver."}

\* A description under test has at most this many lines.
MaxDescriptionLines == 2

Descriptions == UNION {[1..n -> DescriptionLines] : n \in 0..MaxDescriptionLines}

\* The line boundaries GitHub may send.
Newlines == {"\n", "\r\n"}

\* The triggering repository and pull request of the event: a repository
\* some descriptions name, with a number none of them gives.
Triggers ==
    {[repo_uri |-> "https://github.com/JCSDA-internal/oops.git", pr_number |-> 21]}

\* The payload of a pull request event.  The body of a pull request without
\* a description is None: body_is_none says so, and body is then unread.
InitDescribed(descriptions) ==
    /\ description \in descriptions
    /\ trigger \in Triggers
    /\ \E newline \in Newlines, draft \in BOOLEAN :
          /\ Len(description) <= 1 => newline = "\n"
          /\ pr_payload \in
                {[body |-> Join(description, newline), body_is_none |-> FALSE,
                  draft |-> draft]}
                \cup (IF description = <<>>
                      THEN {[body |-> "", body_is_none |-> TRUE,
                             draft |-> draft]}
                      ELSE {})
    /\ ann_pc = "new"
    /\ pr_body = ""
    /\ build_group_matches = <<>>
    /\ test_annotations = None
    /\ LineIdle
    /\ FileIdle
    /\ SharedIdle
    /\ GroupIdle
    /\ ServicesIdle

InitAnnotations == InitDescribed(Descriptions)

\* test_annotations = read_test_annotations(repo_uri=trigger_uri,
\*     pr_number=trigger_pr_id, pr_payload=pr_payload), as get_prs calls it.
ReadTestAnnotations ==
    LET result == read_test_annotations(trigger.repo_uri, trigger.pr_number,
                                        pr_payload)
    IN  /\ ann_pc = "new"
        /\ ann_pc' = IF result.raised = "" THEN "returned" ELSE "raised"
        /\ pr_body' = result.pr_body
        /\ build_group_matches' = result.build_group_members
        /\ test_annotations' = result.annotations
        /\ UNCHANGED <<description, trigger, pr_payload>>
        /\ UNCHANGED <<lineVars, fileVars, sharedVars, groupVars, serviceVars>>

NextAnnotations == ReadTestAnnotations

SpecAnnotations == InitAnnotations /\ [][NextAnnotations]_vars

\* Descriptions that give the cache, branch and draft directives.
SkipCache == "jedi-ci-build-cache=skip"
RebuildCache == "JEDI-CI-Build-Cache = Rebuild"
PurgeCache == "jedi-ci-build-cache=purge"
BundleBranch == "jedi-ci-bundle-branch=feature/new-dag"
EmptyBundleBranch == "jedi-ci-bundle-branch="
ManifestBranch == "jedi-ci-manifest-branch = test/manifest"
RunOnDraft == "run-ci-on-draft=True"
NoRunOnDraft == "run-ci-on-draft=no"

DirectiveLines ==
    {SkipCache, RebuildCache, PurgeCache, BundleBranch, EmptyBundleBranch,
     ManifestBranch, RunOnDraft, NoRunOnDraft, "Fixes the solver."}

DirectiveDescriptions ==
    UNION {[1..n -> DirectiveLines] : n \in 0..MaxDescriptionLines}

InitDirectives == InitDescribed(DirectiveDescriptions)

SpecDirectives == InitDirectives /\ [][NextAnnotations]_vars

-----------------------------------------------------------------------------
(* pr_resolve.py: gather_pr_group and the lookups it makes.                 *)

INTEGRATED_ORG_WHITELIST == {"jcsda-internal", "jcsda", "geos-esm"}

\* "pr_id": "" in a version reference that names no pull request.
NoPrId == 0

\* _validate_repo_uri raises only for a URI that ends in .git and does not
\* start with GITHUB_URI, and what it raises is NameError: its message reads
\* repo_name, which the function does not have.
_validate_repo_uri(repo_uri) ==
    IF ~StartsWith(repo_uri, GITHUB_URI) /\ EndsWith(repo_uri, ".git")
    THEN "NameError" ELSE ""

\* _get_fullname_from_uri: repo_uri[len(GITHUB_URI):-4]
_get_fullname_from_uri(repo_uri) ==
    SubSeq(repo_uri, Len(GITHUB_URI) + 1, Len(repo_uri) - 4)

\* _repo_tuple_from_uri: the unpacking raises ValueError without a "/".
_repo_tuple_from_uri(repo_uri) ==
    LET full_repo == _get_fullname_from_uri(repo_uri)
        i == Find(full_repo, "/")
    IN  IF i = 0
        THEN [raised |-> "ValueError", repo |-> "", org |-> ""]
        ELSE [raised |-> "", repo |-> From(full_repo, i + 1),
              org |-> SubSeq(full_repo, 1, i - 1)]

\* How a request to the repository service can end.
Outcomes == {"ok", "not_found", "forbidden", "rate_limited"}

\* The pull requests and branches the service knows.
PullRequests ==
    {[key |-> "jcsda-internal/oops", number |-> 21, ref |-> "feature/solver", sha |-> "c0ffee21"],
     [key |-> "jcsda-internal/oops", number |-> 13, ref |-> "bugfix/oops", sha |-> "0bad13"],
     [key |-> "jcsda-internal/ioda", number |-> 7, ref |-> "feature/ioda-io", sha |-> "10da07"]}

Branches ==
    {[key |-> "jcsda-internal/oops", branch |-> "develop", sha |-> "00b5de"],
     [key |-> "jcsda-internal/ioda", branch |-> "develop", sha |-> "10dade"],
     [key |-> "jcsda/crtm", branch |-> "release/v2", sha |-> "c47de2"]}

NoLookup == [call |-> "none", key |-> "", number |-> 0, branch |-> ""]

\* The request gather_pr_group makes for an entry after get_repository: the
\* pull request of the trigger, the pull request of the build group, the
\* branch of the manifest, or none.
RefLookup(manifest_entry, repo_name_key, trigger_repo_key, curr_pr_id, pr_group_map) ==
    IF repo_name_key = trigger_repo_key
    THEN [call |-> "get_pull", key |-> repo_name_key, number |-> curr_pr_id, branch |-> ""]
    ELSE IF repo_name_key \in DOMAIN pr_group_map
    THEN [call |-> "get_pull", key |-> repo_name_key, number |-> pr_group_map[repo_name_key], branch |-> ""]
    ELSE IF manifest_entry.branch # NoneStr
    THEN [call |-> "get_branch", key |-> repo_name_key, number |-> 0, branch |-> manifest_entry.branch]
    ELSE NoLookup

\* Whether the service has what a request asks for.
Known(lookup) ==
    CASE lookup.call = "get_pull" ->
            \E pr \in PullRequests : pr.key = lookup.key /\ pr.number = lookup.number
      [] lookup.call = "get_branch" ->
            \E b \in Branches : b.key = lookup.key /\ b.branch = lookup.branch
      [] OTHER -> TRUE

\* How the service answers a request when it is in the state to answer
\* with outcome: what it does not have is not found.
Answer(lookup, outcome) ==
    IF outcome = "ok" /\ ~Known(lookup) THEN "not_found" ELSE outcome

\* A best-effort variant of the loop pass: an entry whose repository or pull
\* request lookup fails is skipped, and one whose branch lookup fails is
\* pinned to its manifest branch without a commit; the call goes on.
LoopBodyBestEffort(manifest_entry, trigger_repo_key, curr_pr_id, pr_group_map, locals, repo_outcome, ref_outcome) ==
    LET repo_uri == manifest_entry.uri
        tuple == _repo_tuple_from_uri(repo_uri)
        repo_name_key == Lower(tuple.org) \o "/" \o Lower(tuple.repo)
        Ends(exception, requests) ==
            [raised |-> exception, appended |-> <<>>, lookups |-> requests, locals |-> locals]
        Skips(requests) ==
            [raised |-> "", appended |-> <<>>, lookups |-> requests, locals |-> locals]
        Appends(version_ref, requests, kept) ==
            [raised |-> "",
             appended |-> <<[name |-> manifest_entry.name, uri |-> repo_uri, version_ref |-> version_ref]>>,
             lookups |-> requests, locals |-> kept]
        get_repository ==
            [call |-> "get_repository", key |-> repo_name_key, number |-> 0, branch |-> "", outcome |-> repo_outcome]
        lookup == RefLookup(manifest_entry, repo_name_key, trigger_repo_key, curr_pr_id, pr_group_map)
        answer == Answer(lookup, ref_outcome)
        request == [call |-> lookup.call, key |-> lookup.key, number |-> lookup.number, branch |-> lookup.branch, outcome |-> answer]
        pr == CHOOSE p \in PullRequests : p.key = lookup.key /\ p.number = lookup.number
        default_branch == CHOOSE b \in Branches : b.key = lookup.key /\ b.branch = lookup.branch
        ref_name == "refs/heads/" \o manifest_entry.branch
    IN  IF _validate_repo_uri(repo_uri) # ""
        THEN Ends(_validate_repo_uri(repo_uri), <<>>)
        ELSE IF tuple.raised # ""
        THEN Ends(tuple.raised, <<>>)
        ELSE IF Lower(tuple.org) \notin INTEGRATED_ORG_WHITELIST
        THEN IF manifest_entry.branch = NoneStr
             THEN Ends("KeyError", <<>>)
             ELSE Appends([pr_id |-> NoPrId, branch |-> manifest_entry.branch], <<>>, locals)
        ELSE IF repo_outcome # "ok"
        THEN Skips(<<get_repository>>)
        ELSE IF lookup.call = "get_pull"
        THEN IF answer # "ok"
             THEN Skips(<<get_repository, request>>)
             ELSE Appends([pr_id |-> pr.number, branch |-> pr.ref, commit |-> pr.sha],
                          <<get_repository, request>>, locals)
        ELSE IF lookup.call = "get_branch"
        THEN IF answer # "ok"
             THEN Appends([pr_id |-> NoPrId, branch |-> manifest_entry.branch],
                          <<get_repository, request>>, locals)
             ELSE Appends([pr_id |-> NoPrId, branch |-> ref_name, commit |-> default_branch.sha],
                          <<get_repository, request>>,
                          [bound |-> TRUE, ref_name |-> ref_name, commit_sha |-> default_branch.sha])
        ELSE IF manifest_entry.release_tag # NoneStr
        THEN [raised |-> "", appended |-> <<>>, lookups |-> <<get_repository>>, locals |-> locals]
        ELSE IF ~locals.bound
        THEN Ends("UnboundLocalError", <<get_repository>>)
        ELSE Appends([pr_id |-> NoPrId, branch |-> locals.ref_name, commit |-> locals.commit_sha],
                     <<get_repository>>, locals)

\* What one pass of the loop of gather_pr_group does with manifest_entry:
\* the exception that ends the call, if any, the entry it appends to group,
\* the requests it made, and ref_name and commit_sha, which the function
\* keeps from one pass to the next.  An entry key that is absent is NoneStr.
LoopBody(manifest_entry, trigger_repo_key, curr_pr_id, pr_group_map, locals, repo_outcome, ref_outcome) ==
    LET repo_uri == manifest_entry.uri
        tuple == _repo_tuple_from_uri(repo_uri)
        repo_name_key == Lower(tuple.org) \o "/" \o Lower(tuple.repo)
        Ends(exception, requests) ==
            [raised |-> exception, appended |-> <<>>, lookups |-> requests, locals |-> locals]
        Appends(version_ref, requests, kept) ==
            [raised |-> "",
             appended |-> <<[name |-> manifest_entry.name, uri |-> repo_uri, version_ref |-> version_ref]>>,
             lookups |-> requests, locals |-> kept]
        get_repository ==
            [call |-> "get_repository", key |-> repo_name_key, number |-> 0, branch |-> "", outcome |-> repo_outcome]
        lookup == RefLookup(manifest_entry, repo_name_key, trigger_repo_key, curr_pr_id, pr_group_map)
        answer == Answer(lookup, ref_outcome)
        request == [call |-> lookup.call, key |-> lookup.key, number |-> lookup.number, branch |-> lookup.branch, outcome |-> answer]
        pr == CHOOSE p \in PullRequests : p.key = lookup.key /\ p.number = lookup.number
        default_branch == CHOOSE b \in Branches : b.key = lookup.key /\ b.branch = lookup.branch
        ref_name == "refs/heads/" \o manifest_entry.branch
    IN  IF _validate_repo_uri(repo_uri) # ""
        THEN Ends(_validate_repo_uri(repo_uri), <<>>)
        ELSE IF tuple.raised # ""
        THEN Ends(tuple.raised, <<>>)
        ELSE IF Lower(tuple.org) \notin INTEGRATED_ORG_WHITELIST
        THEN IF manifest_entry.branch = NoneStr
             THEN Ends("KeyError", <<>>)
             ELSE Appends([pr_id |-> NoPrId, branch |-> manifest_entry.branch], <<>>, locals)
        ELSE IF repo_outcome # "ok"
        THEN Ends(repo_outcome, <<get_repository>>)
        ELSE IF lookup.call = "get_pull"
        THEN IF answer # "ok"
             THEN Ends(answer, <<get_repository, request>>)
             ELSE Appends([pr_id |-> pr.number, branch |-> pr.ref, commit |-> pr.sha],
                          <<get_repository, request>>, locals)
        ELSE IF lookup.call = "get_branch"
        THEN IF answer # "ok"
             THEN Ends(answer, <<get_repository, request>>)
             ELSE Appends([pr_id |-> NoPrId, branch |-> ref_name, commit |-> default_branch.sha],
                          <<get_repository, request>>,
                          [bound |-> TRUE, ref_name |-> ref_name, commit_sha |-> default_branch.sha])
        ELSE IF manifest_entry.release_tag # NoneStr
        THEN [raised |-> "", appended |-> <<>>, lookups |-> <<get_repository>>, locals |-> locals]
        ELSE IF ~locals.bound
        THEN Ends("UnboundLocalError", <<get_repository>>)
        ELSE Appends([pr_id |-> NoPrId, branch |-> locals.ref_name, commit |-> locals.commit_sha],
                     <<get_repository>>, locals)

-----------------------------------------------------------------------------
(* The test manifests and build groups under test.                          *)

OopsEntry == [name |-> "oops", uri |-> "https://github.com/JCSDA-internal/oops.git", branch |-> "develop", release_tag |-> NoneStr]
IodaEntry == [name |-> "ioda", uri |-> "https://github.com/JCSDA-internal/ioda.git", branch |-> "develop", release_tag |-> NoneStr]
EckitEntry == [name |-> "eckit", uri |-> "https://github.com/ecmwf/eckit.git", branch |-> "master", release_tag |-> NoneStr]
CrtmEntry == [name |-> "crtm", uri |-> "https://github.com/JCSDA/crtm.git", branch |-> NoneStr, release_tag |-> "v2.4.1"]
\* An entry that gives neither "branch" nor "release_tag".
SaberEntry == [name |-> "saber", uri |-> "https://github.com/JCSDA-internal/saber.git", branch |-> NoneStr, release_tag |-> NoneStr]

Repositories == {OopsEntry, IodaEntry, EckitEntry, CrtmEntry, SaberEntry}

\* A test manifest under test lists at most this many repositories.
MaxRepositories == 3

\* test_manifest["repositories"]: repositories of the pool, each at most once.
TestManifests ==
    {m \in UNION {[1..n -> Repositories] : n \in 1..MaxRepositories} :
        \A i, j \in 1..Len(m) : i # j => m[i] # m[j]}

\* The build-group maps read_test_annotations can hand over.
PrGroupMaps ==
    {EmptyMap,
     [k \in {"jcsda-internal/ioda"} |-> 7],
     [k \in {"jcsda-internal/oops"} |-> 13],
     [k \in {"jcsda-internal/ioda", "jcsda-internal/oops"} |->
         IF k = "jcsda-internal/ioda" THEN 7 ELSE 13],
     [k \in {"jcsda-internal/ioda"} |-> 8]}

\* gather_pr_group(test_manifest, repo_name_key, trigger_pr_id,
\* test_annotations.build_group_map), as get_prs calls it: group = [].
InitGroup ==
    /\ test_manifest \in TestManifests
    /\ build_group_map \in PrGroupMaps
    /\ trigger \in Triggers
    /\ gather_pc = "loop"
    /\ gather_i = 1
    /\ gather_group = <<>>
    /\ gather_locals = Unbound
    /\ lookups = <<>>
    /\ pr_group = None
    /\ description = <<>>
    /\ pr_payload = None
    /\ ann_pc = "unused"
    /\ pr_body = ""
    /\ build_group_matches = <<>>
    /\ test_annotations = None
    /\ LineIdle
    /\ FileIdle
    /\ SharedIdle
    /\ ServicesIdle

\* The key get_prs computes for the triggering repository.
trigger_repo_key ==
    Lower(_repo_tuple_from_uri(trigger.repo_uri).org) \o "/"
    \o Lower(_repo_tuple_from_uri(trigger.repo_uri).repo)

\* One pass of the repository loop: the service answers each request of the
\* pass in one of the ways it can.
LoopPassGroup ==
    /\ gather_pc = "loop"
    /\ gather_i <= Len(test_manifest)
    /\ \E repo_outcome, ref_outcome \in Outcomes :
          LET pass == LoopBody(test_manifest[gather_i], trigger_repo_key,
                               trigger.pr_number, build_group_map, gather_locals,
                               repo_outcome, ref_outcome)
              made == Len(pass.lookups)
          IN  /\ made = 0 => repo_outcome = "ok"
              /\ made <= 1 => ref_outcome = "ok"
              /\ lookups' = lookups \o pass.lookups
              /\ gather_group' = gather_group \o pass.appended
              /\ gather_locals' = pass.locals
              /\ gather_pc' = IF pass.raised = "" THEN "loop" ELSE "raised"
              /\ gather_i' = gather_i + 1
    /\ UNCHANGED <<test_manifest, build_group_map, pr_group>>
    /\ UNCHANGED <<lineVars, fileVars, sharedVars, annVars, serviceVars>>

\* return group
ReturnGroup ==
    /\ gather_pc = "loop"
    /\ gather_i > Len(test_manifest)
    /\ gather_pc' = "returned"
    /\ pr_group' = gather_group
    /\ UNCHANGED <<test_manifest, build_group_map, gather_i, gather_group, gather_locals, lookups>>
    /\ UNCHANGED <<lineVars, fileVars, sharedVars, annVars, serviceVars>>

NextGroup == LoopPassGroup \/ ReturnGroup

SpecGroup == InitGroup /\ [][NextGroup]_vars

-----------------------------------------------------------------------------
(* main.py: get_environment_config, which reads the configuration of the    *)
(* action from the environment the runner prepared.                         *)

\* str.strip(): without the whitespace at both ends.
RECURSIVE lstrip(_)
lstrip(s) ==
    IF s # "" /\ CharAt(s, 1) \in PrWhitespace
    THEN lstrip(SubSeq(s, 2, Len(s)))
    ELSE s

RECURSIVE rstrip(_)
rstrip(s) ==
    IF s # "" /\ CharAt(s, Len(s)) \in PrWhitespace
    THEN rstrip(SubSeq(s, 1, Len(s) - 1))
    ELSE s

strip(s) == rstrip(lstrip(s))

\* str.split(sep) for a separator of one character: the pieces between the
\* separators, the empty ones included; `piece` is what was read of the
\* current piece.
RECURSIVE SplitFrom(_, _, _)
SplitFrom(s, sep, piece) ==
    IF s = "" THEN <<piece>>
    ELSE IF CharAt(s, 1) = sep
         THEN <<piece>> \o SplitFrom(SubSeq(s, 2, Len(s)), sep, "")
         ELSE SplitFrom(SubSeq(s, 2, Len(s)), sep, piece \o CharAt(s, 1))

split(s, sep) == SplitFrom(s, sep, "")

\* [d.strip() for d in deps_env.split(' ') if d.strip()], deps_env stripped
RECURSIVE StripAll(_)
StripAll(pieces) ==
    IF pieces = <<>> THEN <<>>
    ELSE (IF strip(Head(pieces)) # "" THEN <<strip(Head(pieces))>> ELSE <<>>)
         \o StripAll(Tail(pieces))

Dependencies(deps_env) == StripAll(split(strip(deps_env), " "))

\* list(set(l)): the members of l once each, in an order the set decides.
ListOfSet(l) ==
    LET members == {l[i] : i \in 1..Len(l)}
    IN  {order \in [1..Cardinality(members) -> members] :
            {order[i] : i \in 1..Cardinality(members)} = members}

\* The inline function f_add_target: the lists it may return.
f_add_target(dependencies_list, target_project_name) ==
    ListOfSet(dependencies_list \o <<target_project_name>>)

\* A build stage is a list of project names, the string 'all' or None.
List(l) == [list |-> l]
StrStage(s) == [str |-> s]

\* The build stages, given the two dependency lists: the lists the code may
\* bind build_stages to, none when no branch of the if/elif binds it.
BuildStages(unittest_deps, integration_deps, target_project_name) ==
    IF unittest_deps # <<>> /\ integration_deps # <<>>
    THEN {<<List(u), List(i)>> :
             u \in f_add_target(unittest_deps, target_project_name),
             i \in f_add_target(integration_deps, target_project_name)}
    ELSE IF unittest_deps # <<>> /\ integration_deps = <<>>
    THEN {<<List(u), StrStage("all")>> :
             u \in f_add_target(unittest_deps, target_project_name)}
    ELSE IF integration_deps # <<>> /\ unittest_deps = <<>>
    THEN {<<List(i), None>> :
             i \in f_add_target(integration_deps, target_project_name)}
    ELSE {}

\* The config dictionary, from the locals of get_environment_config.
Config(repository, owner, repo_name, unittest_deps, integration_deps, target_project_name) ==
    IF BuildStages(unittest_deps, integration_deps, target_project_name) = {}
    THEN {[raised |-> "UnboundLocalError"]}
    ELSE {[repository |-> repository,
           owner |-> owner,
           repo_name |-> repo_name,
           unittest_dependencies |-> unittest_deps,
           integration_dependencies |-> integration_deps,
           build_stages |-> stages,
           target_project_name |-> target_project_name] :
             stages \in BuildStages(unittest_deps, integration_deps,
                                    target_project_name)}

\* From the target project name on (main.py:107-155).
ConfigFor(env, owner, repo_name, target_project_name) ==
    Config(env.GITHUB_REPOSITORY, owner, repo_name,
           IF target_project_name = "oops" THEN <<"oops">>
           ELSE Dependencies(env.UNITTEST_DEPENDENCIES),
           Dependencies(env.INTEGRATION_TEST_DEPENDENCIES),
           target_project_name)

\* The outcomes of get_environment_config() in the environment env: the
\* config dictionaries it may return, or the exception it raises.  An unset
\* variable reads as the empty string.
get_environment_config(env) ==
    IF env.GITHUB_REPOSITORY = "" THEN {[raised |-> "ValueError"]}
    ELSE IF Len(split(env.GITHUB_REPOSITORY, "/")) # 2
    THEN {[raised |-> "ValueError"]}
    ELSE IF ~env.pull_request THEN {[raised |-> "ValueError"]}
    ELSE ConfigFor(env,
                   split(env.GITHUB_REPOSITORY, "/")[1],
                   split(env.GITHUB_REPOSITORY, "/")[2],
                   IF strip(env.TARGET_PROJECT_NAME) = ""
                   THEN split(env.GITHUB_REPOSITORY, "/")[2]
                   ELSE env.TARGET_PROJECT_NAME)

\* The environments under test.
RepositorySettings == {"", "ioda", "JCSDA-internal/ioda", "JCSDA-internal/oops"}
TargetSettings == {"", " ", "oops", "ufo"}
DependencySettings ==
    {"", " ", "oops", "oops ioda", " ioda  oops ioda ", "oops saber\n"}

Environments ==
    [GITHUB_REPOSITORY : RepositorySettings,
     pull_request : BOOLEAN,
     TARGET_PROJECT_NAME : TargetSettings,
     UNITTEST_DEPENDENCIES : DependencySettings,
     INTEGRATION_TEST_DEPENDENCIES : DependencySettings]

InitConfig ==
    /\ environ \in Environments
    /\ config_pc = "new"
    /\ config = None
    /\ LineIdle
    /\ FileIdle
    /\ SharedIdle
    /\ AnnIdle
    /\ GroupIdle
    /\ BatchIdle
    /\ CheckRunsIdle
    /\ EventIdle

\* config = get_environment_config()
GetEnvironmentConfig ==
    /\ config_pc = "new"
    /\ \E outcome \in get_environment_config(environ) :
        /\ config' = outcome
        /\ config_pc' = IF "raised" \in DOMAIN outcome THEN "raised" ELSE "returned"
    /\ UNCHANGED environ
    /\ UNCHANGED <<lineVars, fileVars, sharedVars, annVars, groupVars, batchVars,
                   checkRunVars, eventVars>>

NextConfig == GetEnvironmentConfig

SpecConfig == InitConfig /\ [][NextConfig]_vars

-----------------------------------------------------------------------------
(* aws_client.py: cancel_prior_batch_jobs, which stops the jobs of earlier  *)
(* runs on the same pull request before a new job is submitted.             *)

\* \w of Python's re, for the ASCII names of jobs
WordChars == Letters \cup Digits \cup {"_"}

DigitChars == <<"0", "1", "2", "3", "4", "5", "6", "7", "8", "9">>

\* str(n) for a natural number n
RECURSIVE IntStr(_)
IntStr(n) ==
    IF n < 10 THEN DigitChars[n + 1]
    ELSE IntStr(n \div 10) \o DigitChars[(n % 10) + 1]

\* -(\w+)-(\w+) at position q, which stands right after the "-" that ends
\* the prefix: a run of word characters, a "-", and one more word character.
CommitAndEnvironmentAt(job_name, q, end) ==
    /\ end > q
    /\ CharAt(job_name, end) = "-"
    /\ CharAt(job_name, end + 1) \in WordChars

\* regex.search(job_name) for the regex compiled at aws_client.py:100
JobNameMatches(repo_name, pr, job_name) ==
    \E p \in 1..Len(job_name) :
        /\ LitAt(job_name, p, "jedi-ci-" \o repo_name \o "-" \o IntStr(pr) \o "-")
        /\ CommitAndEnvironmentAt(job_name,
               p + Len("jedi-ci-" \o repo_name \o "-" \o IntStr(pr) \o "-"),
               RunEnd(job_name,
                      p + Len("jedi-ci-" \o repo_name \o "-" \o IntStr(pr) \o "-"),
                      WordChars))

pending_jobs_statuses == {"SUBMITTED", "PENDING", "RUNNABLE", "STARTING", "RUNNING"}

\* jobs_to_cancel, from response['jobSummaryList']
RECURSIVE JobsToCancel(_, _, _)
JobsToCancel(repo_name, pr, job_summary_list) ==
    IF job_summary_list = <<>> THEN <<>>
    ELSE (IF Head(job_summary_list).status \in pending_jobs_statuses
             /\ JobNameMatches(repo_name, pr, Head(job_summary_list).jobName)
          THEN <<[jobId |-> Head(job_summary_list).jobId,
                  jobName |-> Head(job_summary_list).jobName,
                  jobStatus |-> Head(job_summary_list).status,
                  reason |-> "Preempted by new test run"]>>
          ELSE <<>>)
         \o JobsToCancel(repo_name, pr, Tail(job_summary_list))

\* The request the cancellation loop makes for one job of jobs_to_cancel.
CancelRequest(job_info) ==
    IF job_info.jobStatus \in {"STARTING", "RUNNING"}
    THEN "terminate_job"
    ELSE "cancel_job"

\* The jobs under test: the job summaries the Batch service lists for the
\* queue, the pull request's name filter applied.
MaxJobs == 2

JobNames ==
    {"jedi-ci-oops-21-c0ffee2-gcc", "jedi-ci-oops-21-0bad13f-intel",
     "jedi-ci-oops-21-manual"}

JobStatuses == {"SUBMITTED", "RUNNABLE", "STARTING", "RUNNING", "SUCCEEDED"}

JobSummaryLists ==
    UNION {{[i \in 1..n |-> [jobId |-> "job-" \o IntStr(i),
                             jobName |-> names[i],
                             status |-> statuses[i]]] :
               names \in [1..n -> JobNames], statuses \in [1..n -> JobStatuses]} :
           n \in 0..MaxJobs}

\* What a request to the Batch service may do: answer, or raise a ClientError
\* (a job that changed status meanwhile can no longer be cancelled).
BatchOutcomes == {"ok", "ClientError"}

InitBatch ==
    /\ batch_args = [job_queue |-> "JobQueue", repo_name |-> "oops", pr |-> 21]
    /\ jobSummaryList \in JobSummaryLists
    /\ batch_pc = "new"
    /\ jobs_to_cancel = <<>>
    /\ cancelled_jobs = <<>>
    /\ batch_requests = <<>>
    /\ LineIdle
    /\ FileIdle
    /\ SharedIdle
    /\ AnnIdle
    /\ GroupIdle
    /\ ConfigIdle
    /\ CheckRunsIdle
    /\ EventIdle

\* cancel_prior_batch_jobs(job_queue, repo_name, pr) up to the cancellation
\* loop: client.list_jobs and the selection of the jobs to cancel.
ListJobs ==
    /\ batch_pc = "new"
    /\ \E outcome \in BatchOutcomes :
        /\ batch_requests' = Append(batch_requests,
               [request |-> "list_jobs", jobId |-> "", outcome |-> outcome])
        /\ IF outcome = "ok"
           THEN /\ jobs_to_cancel' = JobsToCancel(batch_args.repo_name, batch_args.pr,
                                                  jobSummaryList)
                /\ batch_pc' = "cancelling"
           ELSE /\ jobs_to_cancel' = jobs_to_cancel
                /\ batch_pc' = "raised"
    /\ UNCHANGED <<batch_args, jobSummaryList, cancelled_jobs>>
    /\ UNCHANGED <<lineVars, fileVars, sharedVars, annVars, groupVars, configVars,
                   checkRunVars, eventVars>>

\* The outcome of one pass of the cancellation loop for job_info.
CancelBody(job_info, outcome) ==
    [request |-> [request |-> CancelRequest(job_info), jobId |-> job_info.jobId,
                  outcome |-> outcome],
     raised |-> outcome # "ok"]

\* One pass of `for job_info in jobs_to_cancel`.
CancelPass ==
    /\ batch_pc = "cancelling"
    /\ Len(cancelled_jobs) < Len(jobs_to_cancel)
    /\ \E outcome \in BatchOutcomes :
        /\ batch_requests' = Append(batch_requests,
               CancelBody(jobs_to_cancel[Len(cancelled_jobs) + 1], outcome).request)
        /\ IF CancelBody(jobs_to_cancel[Len(cancelled_jobs) + 1], outcome).raised
           THEN /\ batch_pc' = "raised"
                /\ cancelled_jobs' = cancelled_jobs
           ELSE /\ batch_pc' = batch_pc
                /\ cancelled_jobs' = Append(cancelled_jobs,
                                            jobs_to_cancel[Len(cancelled_jobs) + 1])
    /\ UNCHANGED <<batch_args, jobSummaryList, jobs_to_cancel>>
    /\ UNCHANGED <<lineVars, fileVars, sharedVars, annVars, groupVars, configVars,
                   checkRunVars, eventVars>>

\* return cancelled_jobs
ReturnCancelled ==
    /\ batch_pc = "cancelling"
    /\ Len(cancelled_jobs) = Len(jobs_to_cancel)
    /\ batch_pc' = "returned"
    /\ UNCHANGED <<batch_args, jobSummaryList, jobs_to_cancel, cancelled_jobs,
                   batch_requests>>
    /\ UNCHANGED <<lineVars, fileVars, sharedVars, annVars, groupVars, configVars,
                   checkRunVars, eventVars>>

NextBatch == ListJobs \/ CancelPass \/ ReturnCancelled

SpecBatch == InitBatch /\ [][NextBatch]_vars

-----------------------------------------------------------------------------
(* github_client.py: cancel_prior_unfinished_check_runs, which marks the    *)
(* unfinished JEDI check runs of earlier test runs on the pull request as   *)
(* skipped.                                                                 *)

UNIT_TEST_PREFIX == "JEDI unit test"
INTEGRATION_TEST_PREFIX == "JEDI integration test"

_check_run_name_is_jedi(check_run_name) ==
    StartsWith(check_run_name, UNIT_TEST_PREFIX)
        \/ StartsWith(check_run_name, INTEGRATION_TEST_PREFIX)

\* commits.reverse()
RECURSIVE Reverse(_)
Reverse(l) == IF l = <<>> THEN <<>> ELSE Reverse(Tail(l)) \o <<Head(l)>>

\* l[1:limit] of Python
SliceFromSecond(l, limit) ==
    IF Len(l) < 2 \/ limit < 2 THEN <<>>
    ELSE SubSeq(l, 2, IF limit < Len(l) THEN limit ELSE Len(l))

\* check_run.edit(status='completed', conclusion='skipped', output=...)
Edit(check_run) ==
    [check_run EXCEPT !.status = "completed", !.conclusion = "skipped"]

\* Whether the loop over an older commit's check runs edits check_run.
IsUnfinishedJedi(check_run) ==
    /\ _check_run_name_is_jedi(check_run.name)
    /\ check_run.status \in {"queued", "in_progress"}

\* Whether the loop over the trigger commit's check runs edits check_run:
\* it passes over those started less than 10 minutes ago.
IsStaleUnfinishedJedi(check_run) ==
    /\ _check_run_name_is_jedi(check_run.name)
    /\ ~(check_run.started_minutes_ago < 10)
    /\ check_run.status \in {"queued", "in_progress"}

\* The same loop without the test of the name.
CancelUnfinishedAnyName(check_runs) ==
    [runs |-> [r \in 1..Len(check_runs) |->
                  IF check_runs[r].status \in {"queued", "in_progress"}
                  THEN Edit(check_runs[r])
                  ELSE check_runs[r]],
     edited |-> {check_runs[r].id : r \in {q \in 1..Len(check_runs) :
                     check_runs[q].status \in {"queued", "in_progress"}}}]

\* The loop over the check runs of an older commit: the check runs as it
\* leaves them, and the edits it made.
CancelUnfinished(check_runs) ==
    [runs |-> [r \in 1..Len(check_runs) |->
                  IF IsUnfinishedJedi(check_runs[r]) THEN Edit(check_runs[r])
                  ELSE check_runs[r]],
     edited |-> {check_runs[r].id : r \in {q \in 1..Len(check_runs) :
                                             IsUnfinishedJedi(check_runs[q])}}]

\* The loop over the check runs of the trigger commit.
CancelStale(check_runs) ==
    [runs |-> [r \in 1..Len(check_runs) |->
                  IF IsStaleUnfinishedJedi(check_runs[r]) THEN Edit(check_runs[r])
                  ELSE check_runs[r]],
     edited |-> {check_runs[r].id : r \in {q \in 1..Len(check_runs) :
                                             IsStaleUnfinishedJedi(check_runs[q])}}]

\* found_jedi_check_runs after the loop over check_runs
FoundJedi(check_runs) ==
    \E r \in 1..Len(check_runs) : _check_run_name_is_jedi(check_runs[r].name)

\* A loop over the older commits that never breaks.
BreakNever(found) == FALSE

\* `if found_jedi_check_runs: break`
Break(found) == found

\* The pull requests under test: the commits of the pull request, oldest
\* first as pr.get_commits() lists them, each with its check runs.  The last
\* commit is the one that triggered the run.
MaxCommits == 3

CheckRun(name, status, conclusion, started_minutes_ago) ==
    [id |-> 0, name |-> name, status |-> status, conclusion |-> conclusion,
     started_minutes_ago |-> started_minutes_ago]

UnitGcc == "JEDI unit test: gcc"
IntegrationGcc == "JEDI integration test: gcc"
Lint == "lint / flake8"

OlderCheckRuns ==
    {<<>>,
     <<CheckRun(Lint, "in_progress", "", 300)>>,
     <<CheckRun(UnitGcc, "completed", "success", 300)>>,
     <<CheckRun(UnitGcc, "queued", "", 300),
       CheckRun(IntegrationGcc, "in_progress", "", 300)>>,
     <<CheckRun(Lint, "queued", "", 300),
       CheckRun(IntegrationGcc, "queued", "", 300)>>,
     <<CheckRun(IntegrationGcc, "completed", "failure", 300),
       CheckRun(UnitGcc, "in_progress", "", 300)>>}

TriggerCheckRuns ==
    {<<>>,
     <<CheckRun(UnitGcc, "queued", "", 3)>>,
     <<CheckRun(UnitGcc, "in_progress", "", 10)>>,
     <<CheckRun(UnitGcc, "queued", "", 45),
       CheckRun(Lint, "queued", "", 45)>>,
     <<CheckRun(IntegrationGcc, "completed", "success", 45),
       CheckRun(IntegrationGcc, "in_progress", "", 9)>>}

\* The check runs of commit c get the ids 10 * c + 1, 10 * c + 2, ...
Numbered(history) ==
    [c \in 1..Len(history) |->
        [r \in 1..Len(history[c]) |->
            [history[c][r] EXCEPT !.id = 10 * c + r]]]

PullRequestCommits ==
    {<<>>} \cup
    UNION {{Numbered(older \o <<newest>>) :
               older \in [1..(n - 1) -> OlderCheckRuns], newest \in TriggerCheckRuns} :
           n \in 1..MaxCommits}

HistoryLimits == {2, 20}

InitCheckRuns ==
    /\ commit_check_runs \in PullRequestCommits
    /\ history_limit \in HistoryLimits
    /\ cr_pc = "new"
    /\ commits = <<>>
    /\ trigger_commit = 0
    /\ found_jedi_check_runs = FALSE
    /\ fetched = <<>>
    /\ edits = {}
    /\ github_check_runs = commit_check_runs
    /\ LineIdle
    /\ FileIdle
    /\ SharedIdle
    /\ AnnIdle
    /\ GroupIdle
    /\ ConfigIdle
    /\ BatchIdle
    /\ EventIdle

\* cancel_prior_unfinished_check_runs(repo, owner, pr_number, history_limit)
\* up to the loop over the older commits.  A commit is named by its place in
\* pr.get_commits().
GetCommits ==
    /\ cr_pc = "new"
    /\ IF Len(github_check_runs) < 1
       THEN /\ cr_pc' = "returned"
            /\ UNCHANGED <<commits, trigger_commit>>
       ELSE /\ trigger_commit' = Head(Reverse([c \in 1..Len(github_check_runs) |-> c]))
            /\ commits' = SliceFromSecond(
                   Reverse([c \in 1..Len(github_check_runs) |-> c]), history_limit)
            /\ cr_pc' = "older"
    /\ UNCHANGED <<commit_check_runs, history_limit, found_jedi_check_runs, fetched,
                   edits, github_check_runs>>
    /\ UNCHANGED <<lineVars, fileVars, sharedVars, annVars, groupVars, configVars,
                   batchVars, eventVars>>

\* One pass of `for commit in commits`.
OlderCommitPass ==
    /\ cr_pc = "older"
    /\ commits # <<>>
    /\ ~Break(found_jedi_check_runs)
    /\ fetched' = Append(fetched, Head(commits))
    /\ github_check_runs' =
           [github_check_runs EXCEPT
               ![Head(commits)] = CancelUnfinished(github_check_runs[Head(commits)]).runs]
    /\ edits' = edits \cup CancelUnfinished(github_check_runs[Head(commits)]).edited
    /\ found_jedi_check_runs' = FoundJedi(github_check_runs[Head(commits)])
    /\ commits' = Tail(commits)
    /\ UNCHANGED <<commit_check_runs, history_limit, cr_pc, trigger_commit>>
    /\ UNCHANGED <<lineVars, fileVars, sharedVars, annVars, groupVars, configVars,
                   batchVars, eventVars>>

\* The loop over the older commits ended; the loop over the check runs of
\* the trigger commit, and the return.
TriggerCommitPass ==
    /\ cr_pc = "older"
    /\ commits = <<>> \/ Break(found_jedi_check_runs)
    /\ fetched' = Append(fetched, trigger_commit)
    /\ github_check_runs' =
           [github_check_runs EXCEPT
               ![trigger_commit] = CancelStale(github_check_runs[trigger_commit]).runs]
    /\ edits' = edits \cup CancelStale(github_check_runs[trigger_commit]).edited
    /\ cr_pc' = "returned"
    /\ UNCHANGED <<commit_check_runs, history_limit, commits, trigger_commit,
                   found_jedi_check_runs>>
    /\ UNCHANGED <<lineVars, fileVars, sharedVars, annVars, groupVars, configVars,
                   batchVars, eventVars>>

NextCheckRuns == GetCommits \/ OlderCommitPass \/ TriggerCommitPass

SpecCheckRuns == InitCheckRuns /\ [][NextCheckRuns]_vars

-----------------------------------------------------------------------------
(* implementation.py: lambda_handler, which answers a webhook event, and    *)
(* process_event, which configures and launches the tests of a pull        *)
(* request event.                                                           *)

ACTIONABLE_ACTIONS == {"pull_request:opened", "pull_request:synchronize"}
IGNORE_ACTIONS == {"check_run:completed", "check_run:created"}

BUILD_ENVIRONMENTS == <<"gcc", "intel", "gcc11">>

\* get_content_type(headers): the content type of the header without its
\* parameters, in lower case; None ("" here) without a content-type header.
get_content_type(headers) ==
    IF headers.content_type = NoneStr THEN NoneStr
    ELSE Lower(strip(split(headers.content_type, ";")[1]))

\* base64.b64decode(raw_payload).decode('utf-8') when the event says the body
\* is encoded, the body as it is otherwise: the text read, as what it is.
\* Base64 text read as it is is neither JSON nor a form; a body that is not
\* base64 text fails to decode with binascii.Error or UnicodeDecodeError,
\* both a ValueError, whose message ("Undecodable body" in get_json_payload
\* below) depends on the text.
Decoded(body, is_base64_encoded) ==
    IF is_base64_encoded = body.base64 THEN body.form ELSE "text"

\* get_json_payload(event): whether it returns the payload or raises
\* ValueError.  A body is a JSON text ("json"), a form with one payload
\* field that holds the JSON text ("urlencoded"), a form without a payload
\* field, a form with two payload fields, or other text.
get_json_payload(ev) ==
    IF get_content_type(ev.headers)
           \notin {"application/json", "application/x-www-form-urlencoded"}
    THEN [raised |-> "ValueError", message |-> "Unsupported content-type"]
    ELSE IF ev.body = None
    THEN [raised |-> "ValueError", message |-> "Missing event body"]
    ELSE IF ev.isBase64Encoded /\ ~ev.body.base64
    THEN [raised |-> "ValueError", message |-> "Undecodable body"]
    ELSE IF get_content_type(ev.headers) = "application/x-www-form-urlencoded"
            /\ Decoded(ev.body, ev.isBase64Encoded) # "urlencoded"
    THEN [raised |-> "ValueError", message |-> "Invalid urlencoded payload"]
    ELSE IF get_content_type(ev.headers) = "application/json"
            /\ Decoded(ev.body, ev.isBase64Encoded) # "json"
    THEN [raised |-> "ValueError", message |-> "Invalid JSON payload"]
    ELSE [raised |-> "", message |-> ""]

\* contains_valid_signature(event), given how the request for the webhook
\* secret ended: whether the signature of the header is the one computed
\* from the body and the secret.
contains_valid_signature(ev, secret_outcome) ==
    IF secret_outcome # "ok"
    THEN [raised |-> "ClientError", valid |-> FALSE]
    ELSE [raised |-> "", valid |-> ev.headers.signature_matches]

\* lambda_handler up to the call of process_event: the response it returns
\* or the exception that leaves it, neither when it goes on to process the
\* event.  The branch for an invalid signature reads `err`, which no except
\* clause has bound.
Validate(ev, secret_outcome) ==
    IF get_json_payload(ev).raised # ""
    THEN [response |-> [statusCode |-> 400, body |-> get_json_payload(ev).message],
          raised |-> ""]
    ELSE IF contains_valid_signature(ev, secret_outcome).raised # ""
    THEN [response |-> None,
          raised |-> contains_valid_signature(ev, secret_outcome).raised]
    ELSE IF ~contains_valid_signature(ev, secret_outcome).valid
    THEN [response |-> None, raised |-> "UnboundLocalError"]
    ELSE [response |-> None, raised |-> ""]

\* process_event up to the call of get_prs: whether the event is one to act
\* on.
IsActionable(detail_type, action, pull_request_number) ==
    /\ (detail_type \o ":" \o action) \in ACTIONABLE_ACTIONS
    /\ detail_type = "pull_request"
    /\ ~(pull_request_number <= 0)

\* current_repo_manifest of get_prs: the entries of the test manifest whose
\* uri is the trigger uri, letter case aside.
CurrentRepoManifests(repositories, trigger_uri) ==
    SelectSeq(repositories, LAMBDA entry : Lower(entry.uri) = Lower(trigger_uri))

\* A get_prs that does not return early for tests that are not to run.
GetPrsStartWithoutSkip(annotations_read, manifest_outcome, repositories, trigger_uri) ==
    IF annotations_read.raised # ""
    THEN [next |-> "raised", raised |-> annotations_read.raised]
    ELSE IF manifest_outcome # "ok"
    THEN [next |-> "raised", raised |-> manifest_outcome]
    ELSE IF _repo_tuple_from_uri(trigger_uri).raised # ""
    THEN [next |-> "raised", raised |-> _repo_tuple_from_uri(trigger_uri).raised]
    ELSE IF CurrentRepoManifests(repositories, trigger_uri) = <<>>
    THEN [next |-> "raised", raised |-> "IndexError"]
    ELSE [next |-> "gather", raised |-> ""]

\* get_prs up to the call of gather_pr_group, given the annotations read and
\* how the request for the test manifest ended: "raised" with the exception,
\* "skipped" when the tests are not to run, "gather" otherwise.
GetPrsStart(annotations_read, manifest_outcome, repositories, trigger_uri) ==
    IF annotations_read.raised # ""
    THEN [next |-> "raised", raised |-> annotations_read.raised]
    ELSE IF manifest_outcome # "ok"
    THEN [next |-> "raised", raised |-> manifest_outcome]
    ELSE IF _repo_tuple_from_uri(trigger_uri).raised # ""
    THEN [next |-> "raised", raised |-> _repo_tuple_from_uri(trigger_uri).raised]
    ELSE IF CurrentRepoManifests(repositories, trigger_uri) = <<>>
    THEN [next |-> "raised", raised |-> "IndexError"]
    ELSE IF ~annotations_read.annotations.run_tests
    THEN [next |-> "skipped", raised |-> ""]
    ELSE [next |-> "gather", raised |-> ""]

\* build_info_payload of get_prs
BuildInfoPayload(trig, current_repo_manifest, annotations, version_map) ==
    [trigger_pr_number |-> trig.pr_number,
     trigger_commit_sha |-> trig.sha,
     trigger_repo |-> _repo_tuple_from_uri(trig.repo_uri).repo,
     manifest_name |-> current_repo_manifest.name,
     build_group |-> annotations.build_group_map,
     skip_cache |-> annotations.skip_cache,
     rebuild_cache |-> annotations.rebuild_cache,
     version_map |-> version_map,
     debug_time |-> IF annotations.debug_mode THEN 120 * 60 ELSE 0,
     jedi_bundle_branch |-> annotations.jedi_bundle_branch]

\* A process_event that goes on with whatever gather_pr_group left behind.
AfterGatherBestEffort(gather_ended) == "workers"

\* What process_event does once gather_pr_group ended inside get_prs: the
\* exception goes through get_prs and process_event, or the check runs are
\* created.
AfterGather(gather_ended) ==
    IF gather_ended = "raised" THEN "raised" ELSE "workers"

\* chosen_build_environments: the lists process_event may choose.
ChosenBuildEnvironments(test_select) ==
    IF test_select = "random"
    THEN {<<BUILD_ENVIRONMENTS[e]>> : e \in 1..Len(BUILD_ENVIRONMENTS)}
    ELSE IF test_select = "all"
    THEN {BUILD_ENVIRONMENTS}
    ELSE {<<test_select>>}

\* The names create_check_runs gives the two check runs of an environment.
unit_run_name(build_environment, next_suffix) ==
    UNIT_TEST_PREFIX \o ": " \o build_environment \o next_suffix

integration_run_name(build_environment, next_suffix) ==
    INTEGRATION_TEST_PREFIX \o ": " \o build_environment \o next_suffix

\* A loop over the completed futures without the `continue` for a future
\* that raised.
SubmitsJobForAnyFuture(future) == future \in {"done", "raised"}

\* What the loop over the completed futures does with the future of one
\* environment: nothing for a future that raised, a job otherwise.
SubmitsJob(future) == future = "done"

\* build_identity of the job of an environment
BuildIdentity(trig, build_environment) ==
    _repo_tuple_from_uri(trig.repo_uri).repo \o "-" \o IntStr(trig.pr_number)
    \o "-" \o SubSeq(trig.sha, 1, 7) \o "-" \o build_environment

\* The events under test.  The headers of an event give the content type,
\* the name of the GitHub event and a signature; signature_matches says
\* whether it is the signature of the body under the webhook secret.
ContentTypes ==
    {"application/json", "Application/JSON; charset=utf-8",
     "application/x-www-form-urlencoded", "text/plain", NoneStr}

Bodies ==
    {None} \cup [form : {"json", "urlencoded", "urlencoded_without_payload",
                         "urlencoded_twice", "text"},
                 base64 : BOOLEAN]

PullRequestEvent(content_type, body, is_base64_encoded, signature_matches) ==
    [headers |-> [content_type |-> content_type, github_event |-> "pull_request",
                  signature_matches |-> signature_matches],
     body |-> body, isBase64Encoded |-> is_base64_encoded]

JsonEvent(github_event) ==
    [headers |-> [content_type |-> "application/json", github_event |-> github_event,
                  signature_matches |-> TRUE],
     body |-> [form |-> "json", base64 |-> FALSE], isBase64Encoded |-> FALSE]

\* The payload of an event: the triggering repository, the action, and the
\* pull request with its number, head commit, draft flag and description.
OopsPullRequest(action, pr_number) ==
    [repo_uri |-> "https://github.com/JCSDA-internal/oops.git",
     full_name |-> "JCSDA-internal/oops", action |-> action,
     pr_number |-> pr_number, sha |-> "c0ffee21deadbeef"]

EventDescriptions ==
    {<<>>, <<SpacedReference>>, <<RunOnDraft>>, <<NoRunOnDraft>>,
     <<"run-ci-on-draft = YES", "jedi-ci-test-select=all">>,
     <<"jedi-ci-test-select=all">>, <<"jedi-ci-test-select=gcc11">>}

\* An event as it is delivered: every way to send the payload of an opened
\* pull request, and every payload in a well-formed JSON event.
Deliveries ==
    {[event |-> PullRequestEvent(ct, body, encoded, matches),
      trigger |-> OopsPullRequest("opened", 21),
      description |-> <<SpacedReference>>, draft |-> FALSE, body_is_none |-> FALSE] :
        ct \in ContentTypes, body \in Bodies, encoded \in BOOLEAN, matches \in BOOLEAN}
    \cup
    {[event |-> JsonEvent(kind[1]),
      trigger |-> OopsPullRequest(kind[2], number),
      description |-> text, draft |-> draft, body_is_none |-> FALSE] :
        kind \in {<<"pull_request", "opened">>, <<"pull_request", "synchronize">>,
                  <<"pull_request", "closed">>, <<"check_run", "completed">>,
                  <<"push", "">>},
        number \in {0, 21}, text \in EventDescriptions, draft \in BOOLEAN}
    \cup
    {[event |-> JsonEvent("pull_request"),
      trigger |-> OopsPullRequest("opened", 21),
      description |-> <<>>, draft |-> draft, body_is_none |-> TRUE] :
        draft \in BOOLEAN}

\* The test manifests the CI repository may hold: one that lists the
\* triggering repository and one that does not.
EventManifests == {<<OopsEntry, IodaEntry>>, <<IodaEntry, CrtmEntry>>}

\* How the request for the test manifest can end: the service answers with
\* a manifest, the branch or file does not exist, or the file is not JSON.
ManifestOutcomes == {"ok", "not_found", "invalid_json"}

\* How a request to create a check run or to submit a job can end.
RequestOutcomes == {"ok", "failed"}

InitEvent ==
    /\ \E delivery \in Deliveries :
          /\ event = delivery.event
          /\ trigger = delivery.trigger
          /\ description = delivery.description
          /\ pr_payload = [body |-> Join(delivery.description, "\n"),
                           body_is_none |-> delivery.body_is_none,
                           draft |-> delivery.draft]
    /\ test_manifest \in EventManifests
    /\ handler_pc = "new"
    /\ response = None
    /\ process_pc = "unused"
    /\ manifest_request = ""
    /\ build_info_payload = None
    /\ futures = EmptyMap
    /\ created_check_runs = <<>>
    /\ handled = {}
    /\ jobs = <<>>
    /\ ann_pc = "new"
    /\ pr_body = ""
    /\ build_group_matches = <<>>
    /\ test_annotations = None
    /\ build_group_map = EmptyMap
    /\ gather_pc = "unused"
    /\ gather_i = 0
    /\ gather_group = <<>>
    /\ gather_locals = Unbound
    /\ lookups = <<>>
    /\ pr_group = None
    /\ LineIdle
    /\ FileIdle
    /\ SharedIdle
    /\ ConfigIdle
    /\ BatchIdle
    /\ CheckRunsIdle

\* lambda_handler(event, _context) up to the call of process_event.
ReceiveEvent ==
    /\ handler_pc = "new"
    /\ \E secret_outcome \in RequestOutcomes :
          /\ get_json_payload(event).raised # "" => secret_outcome = "ok"
          /\ response' = Validate(event, secret_outcome).response
          /\ handler_pc' =
                IF Validate(event, secret_outcome).response # None THEN "responded"
                ELSE IF Validate(event, secret_outcome).raised # ""
                THEN Validate(event, secret_outcome).raised
                ELSE "processing"
          /\ process_pc' =
                IF Validate(event, secret_outcome).response = None
                      /\ Validate(event, secret_outcome).raised = ""
                THEN "start" ELSE process_pc
    /\ UNCHANGED <<event, manifest_request, build_info_payload, futures,
                   created_check_runs, handled, jobs>>
    /\ UNCHANGED <<annVars, groupVars, otherVars>>

\* process_event(payload, detail_type) up to the call of get_prs.
EvaluateEvent ==
    /\ process_pc = "start"
    /\ process_pc' =
          IF IsActionable(event.headers.github_event, trigger.action, trigger.pr_number)
          THEN "get_prs" ELSE "returned"
    /\ UNCHANGED <<event, handler_pc, response, manifest_request, build_info_payload,
                   futures, created_check_runs, handled, jobs>>
    /\ UNCHANGED <<annVars, groupVars, otherVars>>

\* get_prs up to the call of gather_pr_group: the annotations are read, the
\* test manifest is requested, and the entry of the triggering repository
\* is looked up in it.  In process_event, `if not run_tests: return`.
GetPrs ==
    /\ process_pc = "get_prs"
    /\ \E manifest_outcome \in ManifestOutcomes :
          LET annotations_read ==
                  read_test_annotations(trigger.repo_uri, trigger.pr_number, pr_payload)
              start == GetPrsStart(annotations_read, manifest_outcome, test_manifest,
                                   trigger.repo_uri)
          IN  /\ annotations_read.raised # "" => manifest_outcome = "ok"
              /\ manifest_request' =
                    IF annotations_read.raised # "" THEN "" ELSE manifest_outcome
              /\ ann_pc' = IF annotations_read.raised = "" THEN "returned" ELSE "raised"
              /\ pr_body' = annotations_read.pr_body
              /\ build_group_matches' = annotations_read.build_group_members
              /\ test_annotations' = annotations_read.annotations
              /\ process_pc' = CASE start.next = "raised" -> "raised"
                                 [] start.next = "skipped" -> "returned"
                                 [] OTHER -> "gather"
              /\ gather_pc' = IF start.next = "gather" THEN "loop" ELSE gather_pc
              /\ gather_i' = IF start.next = "gather" THEN 1 ELSE gather_i
              /\ build_group_map' =
                    IF start.next = "gather"
                    THEN annotations_read.annotations.build_group_map
                    ELSE build_group_map
    /\ UNCHANGED <<event, handler_pc, response, build_info_payload, futures,
                   created_check_runs, handled, jobs>>
    /\ UNCHANGED <<description, trigger, pr_payload>>
    /\ UNCHANGED <<test_manifest, gather_group, gather_locals, lookups, pr_group>>
    /\ UNCHANGED otherVars

\* gather_pr_group ended: get_prs builds the build-info payload and returns,
\* and process_event hands the creation of the check runs of every chosen
\* environment to the thread pool; or the exception of gather_pr_group goes
\* through both.
LaunchCheckRuns ==
    /\ process_pc = "gather"
    /\ gather_pc \in {"returned", "raised"}
    /\ process_pc' = AfterGather(gather_pc)
    /\ IF AfterGather(gather_pc) = "workers"
       THEN /\ build_info_payload' =
                  BuildInfoPayload(trigger,
                      CurrentRepoManifests(test_manifest, trigger.repo_uri)[1],
                      test_annotations, pr_group)
            /\ \E chosen \in ChosenBuildEnvironments(test_annotations.test_select) :
                  futures' = [e \in {chosen[i] : i \in 1..Len(chosen)} |-> "unit"]
       ELSE UNCHANGED <<build_info_payload, futures>>
    /\ UNCHANGED <<event, handler_pc, response, manifest_request, created_check_runs,
                   handled, jobs>>
    /\ UNCHANGED <<annVars, groupVars, otherVars>>

\* A worker thread in create_check_runs: the request for the unit check run
\* of its environment, then the one for the integration check run.
CreateCheckRun ==
    /\ process_pc \in {"workers", "raising"}
    /\ \E build_environment \in DOMAIN futures, outcome \in RequestOutcomes :
          /\ futures[build_environment] \in {"unit", "integration"}
          /\ futures' = [futures EXCEPT ![build_environment] =
                IF outcome # "ok" THEN "raised"
                ELSE IF futures[build_environment] = "unit" THEN "integration"
                ELSE "done"]
          /\ created_check_runs' =
                IF outcome # "ok" THEN created_check_runs
                ELSE Append(created_check_runs,
                       IF futures[build_environment] = "unit"
                       THEN unit_run_name(build_environment,
                                          test_annotations.next_ci_suffix)
                       ELSE integration_run_name(build_environment,
                                                 test_annotations.next_ci_suffix))
    /\ UNCHANGED <<event, handler_pc, response, process_pc, manifest_request,
                   build_info_payload, handled, jobs>>
    /\ UNCHANGED <<annVars, groupVars, otherVars>>

\* One pass of the loop over the completed futures: a future that raised is
\* passed over; for another the job of its environment is submitted, and a
\* request that fails ends the loop with its exception.
HandleFuture ==
    /\ process_pc = "workers"
    /\ \E build_environment \in DOMAIN futures \ handled, outcome \in RequestOutcomes :
          /\ futures[build_environment] \in {"done", "raised"}
          /\ handled' = handled \cup {build_environment}
          /\ IF SubmitsJob(futures[build_environment])
             THEN /\ jobs' = Append(jobs,
                        [build_identity |-> BuildIdentity(trigger, build_environment),
                         build_environment |->
                             build_environment \o test_annotations.next_ci_suffix,
                         outcome |-> outcome])
                  /\ build_info_payload' =
                        [c \in DOMAIN build_info_payload \cup {"check_runs"} |->
                            IF c = "check_runs"
                            THEN {unit_run_name(build_environment,
                                                test_annotations.next_ci_suffix),
                                  integration_run_name(build_environment,
                                                test_annotations.next_ci_suffix)}
                            ELSE build_info_payload[c]]
                  /\ process_pc' = IF outcome = "ok" THEN process_pc ELSE "raising"
             ELSE /\ outcome = "ok"
                  /\ UNCHANGED <<jobs, build_info_payload, process_pc>>
    /\ UNCHANGED <<event, handler_pc, response, manifest_request, futures,
                   created_check_runs>>
    /\ UNCHANGED <<annVars, groupVars, otherVars>>

\* The end of the `with` block: every future was handled and process_event
\* returns, or the thread pool has shut down, its threads ended, and the
\* exception of the failed request leaves process_event.
LeaveThreadPool ==
    /\ \/ process_pc = "workers" /\ handled = DOMAIN futures
       \/ /\ process_pc = "raising"
          /\ \A e \in DOMAIN futures : futures[e] \in {"done", "raised"}
    /\ process_pc' = IF process_pc = "workers" THEN "returned" ELSE "raised"
    /\ UNCHANGED <<event, handler_pc, response, manifest_request, build_info_payload,
                   futures, created_check_runs, handled, jobs>>
    /\ UNCHANGED <<annVars, groupVars, otherVars>>

\* lambda_handler after process_event: 202, or 500 for an exception.
Respond ==
    /\ handler_pc = "processing"
    /\ process_pc \in {"returned", "raised"}
    /\ handler_pc' = "responded"
    /\ response' = IF process_pc = "returned"
                   THEN [statusCode |-> 202, body |-> "Webhook processed"]
                   ELSE [statusCode |-> 500, body |-> "Internal Server Error"]
    /\ UNCHANGED <<event, process_pc, manifest_request, build_info_payload, futures,
                   created_check_runs, handled, jobs>>
    /\ UNCHANGED <<annVars, groupVars, otherVars>>

NextEvent ==
    \/ ReceiveEvent
    \/ EvaluateEvent
    \/ GetPrs
    \/ LoopPassGroup
    \/ ReturnGroup
    \/ LaunchCheckRuns
    \/ CreateCheckRun
    \/ HandleFuture
    \/ LeaveThreadPool
    \/ Respond

SpecEvent == InitEvent /\ [][NextEvent]_vars

-----------------------------------------------------------------------------
(* What the manifest under test declares, read off the text of its lines   *)
(* as their author means them: the project, the source clause with single  *)
(* blanks, and for a GIT declaration with a GitHub URL the org/repo the     *)
(* URL names, lower-cased and without scheme, host and ".git" ("" for a     *)
(* declaration without one).                                                *)

Declarations ==
    {[line |-> OopsLine, project |-> "oops",
      source |-> "GIT \"https://github.com/jcsda-internal/oops.git\"",
      github |-> "jcsda-internal/oops"],
     [line |-> RttovLine, project |-> "rttov",
      source |-> "GIT \"https://github.com/JCSDA-internal/rttov.git\"",
      github |-> "jcsda-internal/rttov"],
     [line |-> OopsForkLine, project |-> "oops",
      source |-> "GIT \"https://github.com/jcsda/oops.git\"",
      github |-> "jcsda/oops"],
     [line |-> CrtmLine, project |-> "crtm",
      source |-> "SOURCE /path/to/crtm", github |-> ""],
     [line |-> EckitLine, project |-> "eckit",
      source |-> "GIT \"https://gitlab.com/ecmwf/eckit.git\"", github |-> ""],
     [line |-> GsibecLine, project |-> "gsibec",
      source |-> "GIT \"http://github.com/g/gsibec\"", github |-> "g/gsibec"],
     [line |-> IodaLine, project |-> "ioda",
      source |-> "GIT https://github.com/jcsda-internal/ioda.git",
      github |-> "jcsda-internal/ioda"]}

IsDeclaration(line) == \E d \in Declarations : d.line = line

Declared(line) == CHOOSE d \in Declarations : d.line = line

\* The indices of the declaration lines of the manifest.
DeclarationLines == {i \in 1..Len(manifest) : IsDeclaration(manifest[i])}

\* Every project name the manifest declares.
KnownNames == {Declared(manifest[i]).project : i \in DeclarationLines}

\* A rewrite call has returned and file_object holds its output.
Rewritten == cm_pc = "rewritten"

\* A rewrite call has returned or raised.
CallEnded == cm_pc \in {"rewritten", "rewrite_raised"}

\* The enabled set of the call: given as such to the whitelist methods, the
\* known names minus the disabled ones for the blacklist methods, every known
\* name for basic_rewrite.
EnabledSet ==
    IF rw_call.method = "basic_rewrite" THEN KnownNames
    ELSE IF rw_call.method \in {"rewrite_blacklist",
                                "rewrite_build_group_blacklist"}
    THEN KnownNames \ rw_call.bundles
    ELSE rw_call.bundles

Enabled(i) == Declared(manifest[i]).project \in EnabledSet

\* The org/repo key the parse of declaration i holds (NoneStr without one).
KeyOf(i) == cmake_file.bundle_lines[i].github_org_repo_key

\* The call's build-group map has an entry under the key of declaration i.
GroupPinned(i) ==
    KeyOf(i) # NoneStr /\ KeyOf(i) \in DOMAIN rw_call.build_group_commit_map

\* The call's explicit pins have an entry under the project of declaration i.
NamePinned(i) ==
    Declared(manifest[i]).project \in DOMAIN rw_call.rewrite_rules

Pinned(i) == GroupPinned(i) \/ NamePinned(i)

\* The value declaration i is pinned to: the commit of the build-group entry
\* under its own key, or the explicit pin under its own project name.
PinValue(i) ==
    IF GroupPinned(i)
    THEN rw_call.build_group_commit_map[KeyOf(i)].version_ref.commit
    ELSE rw_call.rewrite_rules[Declared(manifest[i]).project]

\* Line i of the manifest as it stood, as an output line.
Unchanged(i) == file_object[i] = manifest[i] \o "\n"

\* C1: in the output of every rewrite, a declaration whose project is not in
\* the enabled set is "# " followed by the original line text, also when a
\* build-group entry or an explicit pin matches the declaration.
C1_DisabledIsCommentedOriginal ==
    Rewritten =>
        \A i \in DeclarationLines :
            ~Enabled(i) => file_object[i] = "# " \o manifest[i] \o "\n"

\* A build-group rewrite has disabled a declaration that the group pins.
C1_DisabledPinnedWitness ==
    /\ Rewritten
    /\ rw_call.method = "rewrite_build_group_blacklist"
    /\ \E i \in DeclarationLines :
          /\ ~Enabled(i)
          /\ GroupPinned(i)
          /\ file_object[i] = "# " \o manifest[i] \o "\n"

C4_PassthroughFidelity ==
    Rewritten =>
        /\ Len(file_object) = Len(manifest)
        /\ \A i \in 1..Len(manifest) :
              i \notin DeclarationLines => Unchanged(i)

\* A rewrite with pins has passed a commented-out ecbuild_bundle call or a
\* blank line through next to a declaration it changed.
C4_PassthroughWitness ==
    /\ Rewritten
    /\ \E i, j \in 1..Len(manifest) :
          /\ manifest[i] \in {CommentedOutLine, ""}
          /\ Unchanged(i)
          /\ j \in DeclarationLines
          /\ ~Unchanged(j)

\* C5: the output line of every enabled declaration that no pin matches is
\* the original text, and basic_rewrite reproduces the manifest line for line.
C5_EnabledUnpinnedUnchanged ==
    Rewritten =>
        /\ \A i \in DeclarationLines :
              Enabled(i) /\ ~Pinned(i) => Unchanged(i)
        /\ rw_call.method = "basic_rewrite" =>
              file_object = [i \in 1..Len(manifest) |-> manifest[i] \o "\n"]

\* basic_rewrite has reproduced a manifest whose declarations are written
\* with padding and indentation.
C5_BasicRewriteWitness ==
    /\ Rewritten
    /\ rw_call.method = "basic_rewrite"
    /\ \E i, j \in DeclarationLines :
          /\ manifest[i] = OopsLine
          /\ manifest[j] = RttovLine
          /\ Unchanged(i)
          /\ Unchanged(j)

\* C6: a call with both an explicit pin map and a build-group map raises and
\* writes nothing; a call with neither emits every enabled declaration
\* unchanged.
C6_ExclusiveInputs ==
    /\ ( /\ CallEnded
         /\ DOMAIN rw_call.rewrite_rules # {}
         /\ DOMAIN rw_call.build_group_commit_map # {} )
       => cm_pc = "rewrite_raised" /\ file_object = <<>>
    /\ ( /\ CallEnded
         /\ DOMAIN rw_call.rewrite_rules = {}
         /\ DOMAIN rw_call.build_group_commit_map = {} )
       => /\ Rewritten
          /\ \A i \in DeclarationLines : Enabled(i) => Unchanged(i)

\* A call with both maps, each matching an enabled declaration of the
\* manifest, has raised.
C6_BothMapsWitness ==
    /\ cm_pc = "rewrite_raised"
    /\ file_object = <<>>
    /\ \E i \in DeclarationLines :
          Enabled(i) /\ GroupPinned(i) /\ NamePinned(i)

\* C7: a build-group map changes an enabled declaration only if it is a GIT
\* declaration with a GitHub URL and the map has an entry under the org/repo
\* the URL names; a SOURCE declaration and a GIT declaration elsewhere have no
\* key and are changed by an explicit pin under their project name only.
C7_BuildGroupMatchesGithubKeyOnly ==
    Rewritten =>
        \A i \in DeclarationLines :
            LET d == Declared(manifest[i])
                group == rw_call.build_group_commit_map
            IN  /\ ( /\ Enabled(i)
                     /\ DOMAIN group # {}
                     /\ ~Unchanged(i) )
                   => /\ d.github # ""
                      /\ d.github \in DOMAIN group
                      /\ Contains(file_object[i],
                                  " TAG " \o group[d.github].version_ref.commit
                                  \o " ")
                /\ d.github = "" =>
                      /\ KeyOf(i) = NoneStr
                      /\ Enabled(i) => (~Unchanged(i) <=> NamePinned(i))

\* A build-group rewrite has pinned a GitHub declaration whose URL is written
\* with capitals and left alone a declaration hosted elsewhere for whose
\* org/repo the group has an entry.
C7_NonGithubUntouchedWitness ==
    /\ Rewritten
    /\ \E i, j \in DeclarationLines :
          /\ manifest[i] = RttovLine
          /\ Enabled(i)
          /\ ~Unchanged(i)
          /\ manifest[j] = EckitLine
          /\ Enabled(j)
          /\ "ecmwf/eckit" \in DOMAIN rw_call.build_group_commit_map
          /\ Unchanged(j)

\* The declarations of the manifest BundleLine cannot parse.
Malformed(i) == manifest[i] = IodaLine

\* C11: when one declaration line of the manifest cannot be parsed, no
\* CMakeFile object comes out of the constructor, whatever the other lines
\* are, and nothing is ever rewritten from that manifest.
C11_ParseErrorAbortsConstruction ==
    /\ cm_pc # "new"
    /\ \E i \in DeclarationLines : Malformed(i)
    => /\ cm_pc = "construct_raised"
       /\ DOMAIN cmake_file = {"raised"}
       /\ cmake_file.raised = NoGitOrSource
       /\ rw_call = None
       /\ file_object = <<>>

\* The constructor has raised on a manifest whose first line is a well-formed
\* declaration and whose second line is not.
C11_AbortedAfterGoodLineWitness ==
    /\ cm_pc = "construct_raised"
    /\ Len(manifest) = 2
    /\ manifest[1] = OopsLine
    /\ Malformed(2)

\* The last line of the manifest that declares project n.
LastDeclaring(n) ==
    SetMax({i \in DeclarationLines : Declared(manifest[i]).project = n})

\* Declaration i shares its project name with another line of the manifest.
Duplicate(i) ==
    \E j \in DeclarationLines :
        j # i /\ Declared(manifest[j]).project = Declared(manifest[i]).project

\* C12: when declarations share a project name, the name index holds the last
\* of them, every one of them is in bundle_lines at its own index, and a
\* rewrite decides each by its own text and its own org/repo key.
C12_DuplicateNames ==
    cm_pc \in {"constructed", "rewritten", "rewrite_raised"} =>
        /\ DOMAIN cmake_file.bundle_line_names = KnownNames
        /\ \A n \in KnownNames :
              cmake_file.bundle_line_names[n].content = manifest[LastDeclaring(n)]
        /\ DOMAIN cmake_file.bundle_lines = DeclarationLines
        /\ \A i \in DeclarationLines :
              cmake_file.bundle_lines[i].content = manifest[i]
        /\ Rewritten =>
              \A i \in DeclarationLines :
                  Duplicate(i) =>
                      IF ~Enabled(i)
                      THEN file_object[i] = "# " \o manifest[i] \o "\n"
                      ELSE IF Pinned(i)
                      THEN StartsWith(file_object[i],
                                      "ecbuild_bundle( PROJECT "
                                      \o Declared(manifest[i]).project \o " "
                                      \o Declared(manifest[i]).source
                                      \o " TAG " \o PinValue(i) \o " ")
                      ELSE Unchanged(i)

\* A build-group rewrite of a manifest that declares oops twice has pinned the
\* first declaration, whose repository the group names, and left the last
\* one, the one the name index holds, as it stood.
C12_FirstPinnedLastUnchangedWitness ==
    /\ Rewritten
    /\ Len(manifest) = 2
    /\ manifest[1] = OopsLine
    /\ manifest[2] = OopsForkLine
    /\ cmake_file.bundle_line_names["oops"].content = OopsForkLine
    /\ Enabled(1)
    /\ GroupPinned(1)
    /\ ~GroupPinned(2)
    /\ ~Unchanged(1)
    /\ Unchanged(2)

\* C13: a blacklist rewrite with the disabled names D writes what the
\* whitelist rewrite with the known names minus D writes, with explicit pins
\* and with a build group alike, and the names of D that the manifest does
\* not declare make no difference.
C13_BlacklistIsWhitelistOfTheRest ==
    /\ ( CallEnded /\ rw_call.method = "rewrite_blacklist" ) =>
          /\ Rewritten
          /\ file_object =
                rewrite_whitelist(cmake_file, KnownNames \ rw_call.bundles,
                                  rw_call.rewrite_rules).written
          /\ file_object =
                rewrite_blacklist(cmake_file, rw_call.bundles \cap KnownNames,
                                  rw_call.rewrite_rules).written
    /\ ( CallEnded /\ rw_call.method = "rewrite_build_group_blacklist" ) =>
          /\ Rewritten
          /\ file_object =
                rewrite_build_group_whitelist(
                    cmake_file, KnownNames \ rw_call.bundles,
                    rw_call.build_group_commit_map).written
          /\ file_object =
                rewrite_build_group_blacklist(
                    cmake_file, rw_call.bundles \cap KnownNames,
                    rw_call.build_group_commit_map).written

\* A blacklist rewrite has disabled one of two declared projects, pinned the
\* other, and was given a name the manifest does not declare.
C13_BlacklistWitness ==
    /\ Rewritten
    /\ rw_call.method = "rewrite_blacklist"
    /\ OtherProject \in rw_call.bundles
    /\ \E i, j \in DeclarationLines :
          /\ ~Enabled(i)
          /\ file_object[i] = "# " \o manifest[i] \o "\n"
          /\ Enabled(j)
          /\ NamePinned(j)
          /\ ~Unchanged(j)

\* C14: no pass of any rewrite call changes the shared CMakeFile, and what a
\* call has written is what the same call writes on a CMakeFile of its own,
\* whatever other calls ran before it or between its passes.
C14_RewriteLeavesSharedModelAlone ==
    LET own == CMakeFile(original_content)
    IN  /\ cmake_file = own
        /\ \A c \in Callers :
              LET call == calls[c]
                  alone == _rewrite_file_implementation(
                               own, call.enabled_bundles, call.rewrite_rules,
                               call.build_group_commit_map)
              IN  /\ call.pc = "loop" =>
                        call.lines = SubSeq(alone.written, 1, call.i - 1)
                  /\ call.pc = "written" =>
                        /\ ~alone.raised
                        /\ call.file_object = alone.written

\* The integration stage has written a manifest pinned by the build group
\* while the unit stage, which pins the same line by name, is between the
\* two passes of its loop.
C14_InterleavedWitness ==
    /\ calls["integration"].pc = "written"
    /\ DOMAIN calls["integration"].build_group_commit_map # {}
    /\ calls["integration"].file_object[1] # manifest[1] \o "\n"
    /\ calls["unit"].pc = "loop"
    /\ calls["unit"].i = 2
    /\ DOMAIN calls["unit"].rewrite_rules # {}
    /\ calls["unit"].lines # <<>>
    /\ calls["unit"].lines[1] # manifest[1] \o "\n"
    /\ calls["unit"].lines[1] # calls["integration"].file_object[1]

\* What the build-group lines of the descriptions under test say, read off
\* their text: the value after the key, whether it is a pull request URL or
\* an owner/repo#N shorthand, and the repository and pull request it names.
References ==
    {[line |-> UrlReference,
      value |-> "https://github.com/JCSDA-internal/oops/pull/12",
      form |-> "url", key |-> "jcsda-internal/oops", number |-> 12],
     [line |-> ShortReference, value |-> "jcsda-internal/oops#13",
      form |-> "shorthand", key |-> "jcsda-internal/oops", number |-> 13],
     [line |-> SpacedReference, value |-> "jcsda-internal/ioda#0007",
      form |-> "shorthand", key |-> "jcsda-internal/ioda", number |-> 7],
     [line |-> FilesReference,
      value |-> "https://github.com/jcsda-internal/oops/pull/14/files",
      form |-> "neither", key |-> "", number |-> 0]}

Referenced(line) == CHOOSE r \in References : r.line = line

\* The lines of the description that carry a build-group value, and those
\* among them whose value has one of the two forms.
ReferenceLines ==
    {i \in 1..Len(description) : \E r \in References : r.line = description[i]}

ValidReferenceLines ==
    {i \in ReferenceLines : Referenced(description[i]).form # "neither"}

\* The values of the build-group lines, in the order of the description.
RECURSIVE ValuesFrom(_)
ValuesFrom(i) ==
    IF i > Len(description) THEN <<>>
    ELSE (IF i \in ReferenceLines
          THEN <<Referenced(description[i]).value>> ELSE <<>>)
         \o ValuesFrom(i + 1)

HasBody == ~pr_payload.body_is_none

\* C15: the build-group map has an entry for exactly the repositories that a
\* captured value names by a pull request URL or by the shorthand, with a
\* number one of these values gives; a captured value of neither form is
\* dropped, raises nothing and leaves the other entries as they are.
C15_MapHoldsValidReferencesOnly ==
    ann_pc # "new" /\ HasBody =>
        /\ ann_pc = "returned"
        /\ build_group_matches = ValuesFrom(1)
        /\ DOMAIN test_annotations.build_group_map =
              {Referenced(description[i]).key : i \in ValidReferenceLines}
        /\ \A k \in DOMAIN test_annotations.build_group_map :
              \E i \in ValidReferenceLines :
                  /\ Referenced(description[i]).key = k
                  /\ Referenced(description[i]).number =
                        test_annotations.build_group_map[k]

\* A description names pull request 14 of oops by a URL that goes on after
\* the number, and pull request 7 of ioda by the shorthand: both values were
\* captured and the map holds ioda only.
C15_DroppedValueWitness ==
    /\ ann_pc = "returned"
    /\ description = <<FilesReference, SpacedReference>>
    /\ Len(build_group_matches) = 2
    /\ DOMAIN test_annotations.build_group_map = {"jcsda-internal/ioda"}
    /\ test_annotations.build_group_map["jcsda-internal/ioda"] = 7

\* C16: for every repository of the build-group map, the number is the one
\* of the last line of the description that names the repository, whatever
\* the letter case and the form of the references.
C16_LaterReferenceWins ==
    ann_pc = "returned" =>
        \A k \in DOMAIN test_annotations.build_group_map :
            LET naming == {i \in ValidReferenceLines :
                              Referenced(description[i]).key = k}
            IN  /\ naming # {}
                /\ test_annotations.build_group_map[k] =
                      Referenced(description[SetMax(naming)]).number

\* A description names oops twice, by a URL with upper-case letters and then
\* by a lower-case shorthand: the map holds one entry, with the later number.
C16_UrlThenShorthandWitness ==
    /\ ann_pc = "returned"
    /\ description = <<UrlReference, ShortReference>>
    /\ DOMAIN test_annotations.build_group_map = {"jcsda-internal/oops"}
    /\ test_annotations.build_group_map["jcsda-internal/oops"] = 13

\* What the test-select lines of the descriptions under test give as value.
Selections ==
    {[line |-> "jedi-ci-test-select=gcc11", value |-> "gcc11"],
     [line |-> EmptySelect, value |-> ""],
     [line |-> UpperSelect, value |-> "Intel"],
     [line |-> UnknownSelect, value |-> "clang"]}

\* The description has a test-select line with a value of TestSelections.
SelectsValidly ==
    \E i \in 1..Len(description) :
        \E sel \in Selections :
            sel.line = description[i] /\ sel.value \in TestSelections

\* C17: read_test_annotations returns for every description, test_select is
\* one of random, all, intel, gcc, gcc11, and it is random when no test-select
\* line gives one of these values.
C17_TestSelectAlwaysValid ==
    ann_pc # "new" =>
        /\ ann_pc = "returned"
        /\ test_annotations.test_select \in TestSelections
        /\ ~SelectsValidly => test_annotations.test_select = "random"

\* The key of the triggering repository in a build-group map.
TriggerKey == Lower(get_fullname_from_github_uri(trigger.repo_uri))

\* C19: the build-group map read_test_annotations returns holds the
\* triggering repository, under its lower-cased org/repo key, with the number
\* of the triggering pull request, whatever the description names.
C19_TriggerSelfPinned ==
    ann_pc = "returned" =>
        /\ TriggerKey \in DOMAIN test_annotations.build_group_map
        /\ test_annotations.build_group_map[TriggerKey] = trigger.pr_number

\* The lower-cased org/repo key of an entry of the group.
GroupKey(entry) ==
    LET tuple == _repo_tuple_from_uri(entry.uri)
    IN  Lower(tuple.org) \o "/" \o Lower(tuple.repo)

\* The requests of the call that the service did not answer with an object.
FailedLookups == {k \in 1..Len(lookups) : lookups[k].outcome # "ok"}

\* C20: when a get_repository, get_pull or get_branch request of
\* gather_pr_group fails (not found, forbidden, rate limited), the call ends
\* with that failure and returns no group -- neither the entries resolved so
\* far nor an entry for the failed repository -- and nothing is requested
\* after the failure; a call that returns had every request answered.
C20_ResolutionAllOrNothing ==
    /\ FailedLookups # {} =>
          /\ gather_pc = "raised"
          /\ pr_group = None
          /\ FailedLookups = {Len(lookups)}
          /\ \A e \in 1..Len(gather_group) :
                GroupKey(gather_group[e]) # lookups[Len(lookups)].key
    /\ gather_pc = "returned" => FailedLookups = {}

\* A later repository's pull request lookup fails after an earlier entry was
\* resolved: the resolved entry is not returned.
C20_FailureAfterResolvedEntryWitness ==
    /\ gather_pc = "raised"
    /\ pr_group = None
    /\ Len(gather_group) >= 1
    /\ Len(lookups) >= 3
    /\ lookups[Len(lookups)].call = "get_pull"
    /\ lookups[Len(lookups)].outcome \in {"not_found", "forbidden", "rate_limited"}
    /\ \E e \in 1..Len(gather_group) : "commit" \in DOMAIN gather_group[e].version_ref

\* The entry of the test manifest that a group entry was made for.
ManifestEntryOf(entry) ==
    CHOOSE m \in Repositories : m.name = entry.name /\ m.uri = entry.uri

\* The branches and commits an entry of the group can have of its own: the
\* branch its manifest entry names, as it stands or as a ref, and the heads
\* the service holds for its repository.
OwnBranches(entry) ==
    {b \in {ManifestEntryOf(entry).branch, "refs/heads/" \o ManifestEntryOf(entry).branch} :
        ManifestEntryOf(entry).branch # NoneStr}
    \cup {pr.ref : pr \in {p \in PullRequests : p.key = GroupKey(entry)}}

OwnCommits(entry) ==
    {pr.sha : pr \in {p \in PullRequests : p.key = GroupKey(entry)}}
    \cup {b.sha : b \in {x \in Branches : x.key = GroupKey(entry)}}

\* C22: every entry gather_pr_group has gathered carries a branch and a
\* commit of its own repository -- what its manifest entry names and what the
\* service answered for it -- whatever entries were processed before it, so
\* that the order of the entries does not change any entry's reference.
C22_EntryCarriesOwnReference ==
    \A e \in 1..Len(gather_group) :
        /\ gather_group[e].version_ref.branch \in OwnBranches(gather_group[e])
        /\ "commit" \in DOMAIN gather_group[e].version_ref =>
              gather_group[e].version_ref.commit \in OwnCommits(gather_group[e])

\* Whether the description under test has one of the given lines.
Describes(lines) == \E i \in 1..Len(description) : description[i] \in lines

\* C28: in the annotations read_test_annotations returns, rebuild_cache is
\* "true" only when skip_cache is; a description with a bundle-branch or a
\* manifest-branch directive gives skip_cache "true" and rebuild_cache
\* "false", whatever cache directive it has; one with neither a branch nor a
\* valid cache directive gives "false" for both.
C28_CacheFlagsConsistent ==
    ann_pc = "returned" =>
        /\ test_annotations.rebuild_cache = "true" =>
              test_annotations.skip_cache = "true"
        /\ Describes({BundleBranch, EmptyBundleBranch, ManifestBranch}) =>
              /\ test_annotations.skip_cache = "true"
              /\ test_annotations.rebuild_cache = "false"
        /\ ~Describes({BundleBranch, EmptyBundleBranch, ManifestBranch,
                       SkipCache, RebuildCache}) =>
              /\ test_annotations.skip_cache = "false"
              /\ test_annotations.rebuild_cache = "false"

\* A description that asks for a cache rebuild and names a bundle branch.
C28_RebuildWithBranchWitness ==
    /\ ann_pc = "returned"
    /\ description = <<RebuildCache, BundleBranch>>
    /\ test_annotations.skip_cache = "true"
    /\ test_annotations.rebuild_cache = "false"
    /\ test_annotations.jedi_bundle_branch = "feature/new-dag"

\* The projects a dependency setting names, and the target project of an
\* environment, as the author of the workflow file means them.
NamedProjects(setting) ==
    CASE setting = "oops" -> {"oops"}
      [] setting = "oops ioda" -> {"oops", "ioda"}
      [] setting = " ioda  oops ioda " -> {"ioda", "oops"}
      [] setting = "oops saber\n" -> {"oops", "saber"}
      [] OTHER -> {}

TargetProject(env) ==
    CASE env.TARGET_PROJECT_NAME \in {"oops", "ufo"} -> env.TARGET_PROJECT_NAME
      [] env.GITHUB_REPOSITORY = "JCSDA-internal/ioda" -> "ioda"
      [] env.GITHUB_REPOSITORY = "JCSDA-internal/oops" -> "oops"
      [] OTHER -> ""

\* The unit dependencies in force: those of the setting, and oops alone for
\* the target project oops.
UnitProjects(env) ==
    IF TargetProject(env) = "oops" THEN {"oops"}
    ELSE NamedProjects(env.UNITTEST_DEPENDENCIES)

IsProjectList(stage, projects) ==
    /\ "list" \in DOMAIN stage
    /\ \A i, j \in 1..Len(stage.list) : stage.list[i] = stage.list[j] => i = j
    /\ {stage.list[i] : i \in 1..Len(stage.list)} = projects

\* C30: for every combination of the two dependency settings, each empty or
\* not, and every target project, get_environment_config returns a config
\* whose build_stages has exactly two entries: first a list of project names
\* without duplicates that contains the target project; second the
\* integration list with the target project when both are set, 'all' when
\* only unit dependencies are set, None when only integration dependencies
\* are set.
C30_BuildStagesForEveryCombination ==
    (config_pc \in {"returned", "raised"}
        /\ environ.pull_request
        /\ environ.GITHUB_REPOSITORY \in {"JCSDA-internal/ioda", "JCSDA-internal/oops"}) =>
        /\ config_pc = "returned"
        /\ Len(config.build_stages) = 2
        /\ "list" \in DOMAIN config.build_stages[1]
        /\ IsProjectList(config.build_stages[1],
               {config.build_stages[1].list[i] :
                   i \in 1..Len(config.build_stages[1].list)})
        /\ \E i \in 1..Len(config.build_stages[1].list) :
               config.build_stages[1].list[i] = TargetProject(environ)
        /\ (UnitProjects(environ) # {}
               /\ NamedProjects(environ.INTEGRATION_TEST_DEPENDENCIES) # {}) =>
               IsProjectList(config.build_stages[2],
                   NamedProjects(environ.INTEGRATION_TEST_DEPENDENCIES)
                       \cup {TargetProject(environ)})
        /\ (UnitProjects(environ) # {}
               /\ NamedProjects(environ.INTEGRATION_TEST_DEPENDENCIES) = {}) =>
               config.build_stages[2] = StrStage("all")
        /\ (UnitProjects(environ) = {}
               /\ NamedProjects(environ.INTEGRATION_TEST_DEPENDENCIES) # {}) =>
               config.build_stages[2] = None

\* The same for the environments that set at least one of the two
\* dependency settings (or whose target project is oops).
C30_BuildStagesWhenSomeDependencySet ==
    (UnitProjects(environ) # {}
        \/ NamedProjects(environ.INTEGRATION_TEST_DEPENDENCIES) # {}) =>
        C30_BuildStagesForEveryCombination

C30_NoDependenciesRaises ==
    /\ config_pc = "raised"
    /\ config = [raised |-> "UnboundLocalError"]
    /\ environ.GITHUB_REPOSITORY = "JCSDA-internal/ioda"
    /\ environ.UNITTEST_DEPENDENCIES = ""
    /\ environ.INTEGRATION_TEST_DEPENDENCIES = ""

\* The jobs of earlier runs on the pull request: those whose names carry a
\* commit and a build environment.
IsBuildJob(job_summary) ==
    job_summary.jobName \in {"jedi-ci-oops-21-c0ffee2-gcc",
                             "jedi-ci-oops-21-0bad13f-intel"}

\* The requests made for the job, list_jobs aside.
RequestsFor(job_summary) ==
    {r \in 1..Len(batch_requests) : batch_requests[r].jobId = job_summary.jobId}

AttemptedOnceWith(job_summary, request) ==
    /\ Cardinality(RequestsFor(job_summary)) = 1
    /\ \A r \in RequestsFor(job_summary) : batch_requests[r].request = request

\* Every job was attempted as its status asks: STARTING and RUNNING jobs
\* terminated, SUBMITTED, PENDING and RUNNABLE jobs cancelled, the others
\* left untouched.
EveryJobAttempted ==
    \A i \in 1..Len(jobSummaryList) :
        IF IsBuildJob(jobSummaryList[i])
              /\ jobSummaryList[i].status \in {"STARTING", "RUNNING"}
        THEN AttemptedOnceWith(jobSummaryList[i], "terminate_job")
        ELSE IF IsBuildJob(jobSummaryList[i])
              /\ jobSummaryList[i].status \in {"SUBMITTED", "PENDING", "RUNNABLE"}
        THEN AttemptedOnceWith(jobSummaryList[i], "cancel_job")
        ELSE RequestsFor(jobSummaryList[i]) = {}

CancellationEnded ==
    /\ batch_pc \in {"returned", "raised"}
    /\ batch_requests[1].outcome = "ok"

\* C25: in cancel_prior_batch_jobs a failed cancellation is caught: when
\* cancel_job or terminate_job fails for one job, the function still attempts
\* the remaining jobs and returns normally, with STARTING/RUNNING jobs
\* terminated, SUBMITTED/PENDING/RUNNABLE jobs cancelled, and jobs in any
\* other status left untouched.
C25_FailedCancellationCaught ==
    CancellationEnded => (batch_pc = "returned" /\ EveryJobAttempted)

\* The same when no cancel_job and no terminate_job request fails.
C25_CancellationsWhenNoneFails ==
    (CancellationEnded
        /\ \A r \in 1..Len(batch_requests) : batch_requests[r].outcome = "ok") =>
        (batch_pc = "returned" /\ EveryJobAttempted)

\* The first of two jobs could not be cancelled: the call raised, and the
\* second job, a running one, was never attempted.
C25_FailedCancellationRaises ==
    /\ batch_pc = "raised"
    /\ Len(jobSummaryList) = 2
    /\ IsBuildJob(jobSummaryList[1]) /\ jobSummaryList[1].status = "RUNNABLE"
    /\ IsBuildJob(jobSummaryList[2]) /\ jobSummaryList[2].status = "RUNNING"
    /\ Len(batch_requests) = 2
    /\ batch_requests[2] = [request |-> "cancel_job", jobId |-> "job-1",
                            outcome |-> "ClientError"]
    /\ RequestsFor(jobSummaryList[2]) = {}

\* The check runs of the JEDI tests, by their names.
IsJediRun(check_run) == check_run.name \in {UnitGcc, IntegrationGcc}

IsUnfinished(check_run) == check_run.status \in {"queued", "in_progress"}

IsSkipped(check_run) ==
    check_run.status = "completed" /\ check_run.conclusion = "skipped"

\* C23: cancel_prior_unfinished_check_runs edits a check run only if its name
\* starts with 'JEDI unit test' or 'JEDI integration test' and its status is
\* 'queued' or 'in_progress', and every edit sets status 'completed' with
\* conclusion 'skipped'; check runs of other tools and check runs already
\* completed are never modified, on older commits and on the trigger commit
\* alike.
C23_OnlyUnfinishedJediRunsEdited ==
    \A c \in 1..Len(commit_check_runs) :
        \A r \in 1..Len(commit_check_runs[c]) :
            /\ commit_check_runs[c][r].id \in edits =>
                  /\ IsJediRun(commit_check_runs[c][r])
                  /\ IsUnfinished(commit_check_runs[c][r])
                  /\ IsSkipped(github_check_runs[c][r])
            /\ (~IsJediRun(commit_check_runs[c][r])
                   \/ ~IsUnfinished(commit_check_runs[c][r])) =>
                  /\ commit_check_runs[c][r].id \notin edits
                  /\ github_check_runs[c][r] = commit_check_runs[c][r]
            /\ commit_check_runs[c][r].id \notin edits =>
                  github_check_runs[c][r] = commit_check_runs[c][r]

\* The call returned after it edited a JEDI check run of an older commit and
\* one of the trigger commit, next to unfinished check runs of another tool
\* on both commits.
C23_EditsNextToOtherToolsWitness ==
    /\ cr_pc = "returned"
    /\ Len(commit_check_runs) = 2
    /\ Len(commit_check_runs[1]) = 2 /\ Len(commit_check_runs[2]) = 2
    /\ edits = {12, 21}
    /\ commit_check_runs[1][1].name = Lint /\ IsUnfinished(github_check_runs[1][1])
    /\ commit_check_runs[2][2].name = Lint /\ IsUnfinished(github_check_runs[2][2])

HasJediRun(c) ==
    \E r \in 1..Len(commit_check_runs[c]) : IsJediRun(commit_check_runs[c][r])

WasFetched(c) == \E f \in 1..Len(fetched) : fetched[f] = c

\* C24: scanning the older commits from newest to oldest,
\* cancel_prior_unfinished_check_runs stops after the first commit that has
\* any JEDI check run: all JEDI check runs of that commit are examined, and
\* no check run of any commit older than it is fetched or edited; the trigger
\* commit's own check runs are always examined, and those started less than
\* 10 minutes ago are never cancelled.
C24_ScanStopsAtFirstJediCommit ==
    (cr_pc = "returned" /\ commit_check_runs # <<>>) =>
        /\ \A f, g \in 1..Len(fetched) :
               (f < g /\ g < Len(fetched)) => fetched[f] > fetched[g]
        /\ \A c \in 1..(Len(commit_check_runs) - 1) :
               (WasFetched(c) /\ HasJediRun(c)) =>
                   /\ \A r \in 1..Len(commit_check_runs[c]) :
                          (IsJediRun(commit_check_runs[c][r])
                              /\ IsUnfinished(commit_check_runs[c][r])) =>
                              IsSkipped(github_check_runs[c][r])
                   /\ \A older \in 1..(c - 1) :
                          /\ ~WasFetched(older)
                          /\ github_check_runs[older] = commit_check_runs[older]
        /\ fetched[Len(fetched)] = Len(commit_check_runs)
        /\ \A r \in 1..Len(commit_check_runs[Len(commit_check_runs)]) :
               LET before == commit_check_runs[Len(commit_check_runs)][r]
                   after == github_check_runs[Len(commit_check_runs)][r]
               IN  /\ before.started_minutes_ago < 10 => after = before
                   /\ (IsJediRun(before) /\ IsUnfinished(before)
                          /\ before.started_minutes_ago >= 10) => IsSkipped(after)

\* The scan stopped at the commit before the trigger commit, which has JEDI
\* check runs; the oldest commit, with unfinished JEDI check runs, was not
\* fetched; and the trigger commit keeps its check run of 9 minutes.
C24_StoppedBeforeOldestWitness ==
    /\ cr_pc = "returned"
    /\ history_limit = 20
    /\ fetched = <<2, 3>>
    /\ HasJediRun(2)
    /\ \E r \in 1..Len(github_check_runs[1]) :
           IsJediRun(github_check_runs[1][r]) /\ IsUnfinished(github_check_runs[1][r])
    /\ \E r \in 1..Len(github_check_runs[3]) :
           /\ github_check_runs[3][r].started_minutes_ago = 9
           /\ IsUnfinished(github_check_runs[3][r])

\* The content types of the events under test that name JSON or a form.
AcceptedContentTypes ==
    {"application/json", "Application/JSON; charset=utf-8",
     "application/x-www-form-urlencoded"}

\* The delivered event carries a payload: its content type is an accepted
\* one, its body is encoded as the event says, and the body is JSON text,
\* or for a form, a form with exactly one payload field.
PayloadParses ==
    /\ event.headers.content_type \in AcceptedContentTypes
    /\ event.body # None
    /\ event.body.base64 = event.isBase64Encoded
    /\ event.body.form =
          IF event.headers.content_type = "application/x-www-form-urlencoded"
          THEN "urlencoded" ELSE "json"

\* lambda_handler returned a response or an exception left it.
HandlerEnded == handler_pc \notin {"unused", "new", "processing"}

\* The status the handler owes the delivered event.
StatusOwed ==
    IF ~PayloadParses THEN 400
    ELSE IF ~event.headers.signature_matches THEN 401
    ELSE IF process_pc = "raised" THEN 500
    ELSE 202

\* C29: lambda_handler always returns a response and never raises: 400 for
\* an unsupported content type, a missing body or an invalid payload, 401
\* with body 'Invalid Signature' when the signature does not match, 500
\* when processing raises, 202 otherwise; and process_event is invoked only
\* after the payload parsed and the signature was found valid.
C29_HandlerAlwaysResponds ==
    /\ HandlerEnded =>
          /\ handler_pc = "responded"
          /\ response.statusCode = StatusOwed
          /\ response.statusCode = 401 => response.body = "Invalid Signature"
    /\ process_pc # "unused" => PayloadParses /\ event.headers.signature_matches

\* C29, the part of it the handler keeps: an exception leaves the handler
\* only where the signature is checked (the request for the secret failed,
\* or the signature did not match), every response it does return has the
\* status owed, and process_event starts only for a parsed payload with a
\* matching signature.
C29_ResponsesItReturns ==
    /\ HandlerEnded /\ handler_pc # "responded" =>
          /\ PayloadParses
          /\ process_pc = "unused"
          /\ handler_pc \in {"ClientError", "UnboundLocalError"}
          /\ handler_pc = "UnboundLocalError" => ~event.headers.signature_matches
    /\ HandlerEnded /\ handler_pc = "responded" =>
          /\ response.statusCode = StatusOwed
          /\ response.statusCode \in {400, 500, 202}
    /\ process_pc # "unused" => PayloadParses /\ event.headers.signature_matches

\* C29: an event with a parsed payload whose signature does not match leaves
\* the handler with an UnboundLocalError and without a response.
C29_InvalidSignatureRaises ==
    /\ handler_pc = "UnboundLocalError"
    /\ response = None
    /\ PayloadParses
    /\ ~event.headers.signature_matches

\* The resolver failed in this run: the description could not be read, the
\* test manifest was not found or is not JSON, it has no entry for the
\* triggering repository, or a lookup of gather_pr_group failed.
ResolverFailed ==
    \/ ann_pc = "raised"
    \/ manifest_request \in {"not_found", "invalid_json"}
    \/ /\ manifest_request = "ok"
       /\ \A i \in 1..Len(test_manifest) :
             Lower(test_manifest[i].uri) # Lower(trigger.repo_uri)
    \/ gather_pc = "raised"

\* C21: after a resolver failure or a parse failure nothing downstream
\* happens in the run: the failure goes up to the handler, which answers
\* 500; no build-info payload is built, no manifest is rewritten, no check
\* run is created and no batch job is submitted.
C21_FailureAbortsRun ==
    ResolverFailed =>
        /\ process_pc \in {"gather", "raised"}
        /\ process_pc = "gather" => ENABLED LaunchCheckRuns
        /\ build_info_payload = None
        /\ cm_pc = "unused"
        /\ futures = EmptyMap
        /\ created_check_runs = <<>>
        /\ jobs = <<>>
        /\ HandlerEnded => handler_pc = "responded" /\ response.statusCode = 500

\* C21: the second lookup of the build group failed after the first one
\* succeeded, and the handler answered 500.
C21_LookupFailedWitness ==
    /\ gather_pc = "raised"
    /\ Len(lookups) = 2
    /\ handler_pc = "responded"
    /\ response.statusCode = 500

\* C21: the test manifest is not JSON, and the handler answered 500.
C21_ManifestParseFailedWitness ==
    /\ manifest_request = "invalid_json"
    /\ handler_pc = "responded"
    /\ response.statusCode = 500

\* The lines of the descriptions under test that are a run-ci-on-draft
\* directive with one of the values t, true and yes, letter case aside.
RunOnDraftLines == {RunOnDraft, "run-ci-on-draft = YES"}

\* The description of the pull request has such a directive.
AnnotatedToRunOnDraft ==
    \E i \in 1..Len(description) : description[i] \in RunOnDraftLines

\* C27: for a draft pull request whose description has no run-ci-on-draft
\* directive with value t, true or yes, run_tests is false and the run looks
\* up no pull request or branch for the build group, creates no check run
\* and submits no batch job; for a pull request that is not a draft
\* run_tests is true whatever the directive says.
C27_DraftsRunOnlyWhenAnnotated ==
    /\ pr_payload.draft /\ ~AnnotatedToRunOnDraft =>
          /\ ann_pc = "returned" => ~test_annotations.run_tests
          /\ gather_pc = "unused"
          /\ lookups = <<>>
          /\ build_info_payload = None
          /\ futures = EmptyMap
          /\ created_check_runs = <<>>
          /\ jobs = <<>>
    /\ ~pr_payload.draft /\ ann_pc = "returned" => test_annotations.run_tests

\* C27: a draft pull request that says run-ci-on-draft=no was answered with
\* 202 after get_prs read the test manifest, with no lookup made.
C27_DraftSkippedWitness ==
    /\ pr_payload.draft
    /\ description = <<NoRunOnDraft>>
    /\ manifest_request = "ok"
    /\ process_pc = "returned"
    /\ lookups = <<>>
    /\ handler_pc = "responded"
    /\ response.statusCode = 202

\* C27: a pull request that is not a draft and says run-ci-on-draft=no had
\* its tests launched.
C27_NotDraftRunsWitness ==
    /\ ~pr_payload.draft
    /\ description = <<NoRunOnDraft>>
    /\ jobs # <<>>

\* The job of an environment was submitted: its request was made, whatever
\* came of it.
JobRequested(build_environment) ==
    \E i \in 1..Len(jobs) :
        jobs[i].build_identity = BuildIdentity(trigger, build_environment)

\* Both check runs of an environment were created.
BothCheckRunsCreated(build_environment) ==
    /\ \E i \in 1..Len(created_check_runs) :
          created_check_runs[i] =
              unit_run_name(build_environment, test_annotations.next_ci_suffix)
    /\ \E i \in 1..Len(created_check_runs) :
          created_check_runs[i] =
              integration_run_name(build_environment, test_annotations.next_ci_suffix)

\* No request to submit a job failed.
NoSubmitFailed == \A i \in 1..Len(jobs) : jobs[i].outcome = "ok"

C26_JobDuringCreationWitness ==
    /\ jobs # <<>>
    /\ \E e \in DOMAIN futures : futures[e] \in {"unit", "integration"}

\* C8: parsing a declaration line the serializer emitted (rewrite_original or
\* rewrite) and emitting it again by the same method without new pins yields
\* the emitted text.
C8_ReserializationIdempotent ==
    bl_pc = "reparsed" => reparsed.raised = "" /\ reemitted = emitted

\* The names of the flags a constructed BundleLine holds.
FlagsOf(self) == {self.components[k].name : k \in DOMAIN self.components}

\* C9: a declaration that carries both MANUAL and RECURSIVE is parsed with
\* both flags, and every serialization of it, pinned or not, has both.
C9_ManualAndRecursiveKept ==
    /\ bl_pc \in {"parsed", "emitted", "rewrite_raised", "reparsed"}
    /\ bl_desc.flags \in {"MANUAL RECURSIVE", "RECURSIVE MANUAL"}
    => /\ FlagsOf(bl) = {"MANUAL", "RECURSIVE"}
       /\ bl_pc \in {"emitted", "reparsed"} =>
             /\ Contains(emitted, " MANUAL ")
             /\ Contains(emitted, " RECURSIVE ")

\* C10: constructing a BundleLine raises when the line has no PROJECT, when it
\* has both GIT and SOURCE and when it has neither; a constructed BundleLine
\* has a project name and a source_reference_type of "git" or "source".
C10_ParseRequiresProjectAndOneSource ==
    bl_pc \in {"parsed", "raised", "emitted", "rewrite_raised", "reparsed"} =>
        /\ bl_desc.keyword = "" => bl.raised # ""
        /\ ( /\ Contains(bl_desc.source, "GIT \"")
             /\ Contains(bl_desc.source, "SOURCE /") ) => bl.raised # ""
        /\ bl_desc.source = "" => bl.raised # ""
        /\ bl.raised = "" =>
              /\ bl.project # None
              /\ bl.project_name # ""
              /\ bl.source_reference_type \in {"git", "source"}

====
